---- MODULE Spec2Model ----
(***************************************************************************)
(* Spiralverse-AetherMoore: the chaos cipher engine (scbe_engine.py), the  *)
(* hyperbolic trajectory stack (aethermoore_geometry.py), the semantic     *)
(* binding (lws_core.py) and the authorization protocol                    *)
(* (spiralverse_integration.py) as state machines.                         *)
(*                                                                         *)
(* Representation:                                                         *)
(*  - a byte string is a sequence over 0..255; a text string is the       *)
(*    sequence of its character codes;                                     *)
(*  - a float of the chaos generator is a fixed-point integer over         *)
(*    ChaosScale (TLC integers are 32 bits wide, which sets the scale);    *)
(*  - the hashlib digests are stood in for by Digest, a deterministic      *)
(*    mixing function of the whole input with the digest's real length;    *)
(*  - a float of the geometry is a fixed-point integer over GeoScale, or  *)
(*    NaN;                                                                 *)
(*  - secrets.token_bytes and time.time are inputs drawn by the actions.   *)
(***************************************************************************)
EXTENDS Integers, Sequences, FiniteSets, TLC

VARIABLES
    chaos,      \* SCBEEngine._chaos of the engine in use (scbe_engine.py:62)
    enc,        \* the last encrypt call on that engine: its arguments, IV and result
    dec,        \* the last decrypt call on that engine: its arguments and outcome
    last,       \* which operation ran last on the engine
    plain,      \* the plaintext under test
    ekey,       \* the key under test, with the password it was derived from
    system,     \* the SpiralverseSystem instance: master_key, derived_key, hyperbolic
    req,        \* the subject, payload and passphrase under test
    issued,     \* the last create_authorization call: the token it returned
    ver,        \* the last verify_authorization call: its arguments and outcome
    wire,       \* the last export_token call: its token and the string returned
    imp,        \* the last import_token call: its string and outcome
    derived,    \* the derive_key calls made on the engine: arguments and key returned
    threads,    \* the callers inside encrypt or decrypt of one engine: their locals
    gem,        \* the last compute_gematria call: its text and the total returned
    geo,        \* the geometry calls made: the point, the trajectory and the verdicts
    validator,  \* the ConsensusValidator's system: the tokens issued, the calls made on it
    stream,     \* a ChaosGenerator of its own: its state and its generate_stream calls
    padcall     \* the last _pad call: the block size configured, the data, the outcome

vars == <<chaos, enc, dec, last, plain, ekey, system, req, issued, ver, wire, imp,
          derived, threads, gem, geo, validator, stream, padcall>>

(***************************************************************************)
(* Bounds of the model.                                                    *)
(***************************************************************************)
MaxPlainLen == 17       \* plaintexts of 0..MaxPlainLen bytes (0, <16, 16, >16)
MaxRandom == 2          \* number of distinct values a random draw may take
MaxTextLen == 3         \* texts of 0..MaxTextLen characters are scored
MaxStreamLen == 11      \* generate_stream is asked for 0..MaxStreamLen bytes
MaxPadLen == 17         \* _pad is handed 0..MaxPadLen bytes, and lengths around its block size

(***************************************************************************)
(* Bytes.                                                                  *)
(***************************************************************************)
ByteMod == 256

Min(a, b) == IF a < b THEN a ELSE b

\* body(v) for a local variable of the code: v is computed once, as an assignment does
Let(v, body(_)) == CHOOSE result \in { body(x) : x \in {v} } : TRUE

\* i ^ j for two 4-bit values, as a table: Xor4[i + 1][j + 1]
Xor4 ==
    << << 0,  1,  2,  3,  4,  5,  6,  7,  8,  9, 10, 11, 12, 13, 14, 15>>,
       << 1,  0,  3,  2,  5,  4,  7,  6,  9,  8, 11, 10, 13, 12, 15, 14>>,
       << 2,  3,  0,  1,  6,  7,  4,  5, 10, 11,  8,  9, 14, 15, 12, 13>>,
       << 3,  2,  1,  0,  7,  6,  5,  4, 11, 10,  9,  8, 15, 14, 13, 12>>,
       << 4,  5,  6,  7,  0,  1,  2,  3, 12, 13, 14, 15,  8,  9, 10, 11>>,
       << 5,  4,  7,  6,  1,  0,  3,  2, 13, 12, 15, 14,  9,  8, 11, 10>>,
       << 6,  7,  4,  5,  2,  3,  0,  1, 14, 15, 12, 13, 10, 11,  8,  9>>,
       << 7,  6,  5,  4,  3,  2,  1,  0, 15, 14, 13, 12, 11, 10,  9,  8>>,
       << 8,  9, 10, 11, 12, 13, 14, 15,  0,  1,  2,  3,  4,  5,  6,  7>>,
       << 9,  8, 11, 10, 13, 12, 15, 14,  1,  0,  3,  2,  5,  4,  7,  6>>,
       <<10, 11,  8,  9, 14, 15, 12, 13,  2,  3,  0,  1,  6,  7,  4,  5>>,
       <<11, 10,  9,  8, 15, 14, 13, 12,  3,  2,  1,  0,  7,  6,  5,  4>>,
       <<12, 13, 14, 15,  8,  9, 10, 11,  4,  5,  6,  7,  0,  1,  2,  3>>,
       <<13, 12, 15, 14,  9,  8, 11, 10,  5,  4,  7,  6,  1,  0,  3,  2>>,
       <<14, 15, 12, 13, 10, 11,  8,  9,  6,  7,  4,  5,  2,  3,  0,  1>>,
       <<15, 14, 13, 12, 11, 10,  9,  8,  7,  6,  5,  4,  3,  2,  1,  0>> >>

\* a ^ b on two bytes, from its two halves
Xor(a, b) ==
    Xor4[(a \div 16) + 1][(b \div 16) + 1] * 16 + Xor4[(a % 16) + 1][(b % 16) + 1]

\* bytes(a ^ b for a, b in zip(x, y)): zip stops at the shorter operand
XorBytes(x, y) == [i \in 1..Min(Len(x), Len(y)) |-> Xor(x[i], y[i])]

\* bytes([b] * n)
Fill(n, b) == [i \in 1..n |-> b]

\* Python's data[:k] and data[k:] for 0 <= k
Take(data, k) == SubSeq(data, 1, Min(k, Len(data)))
Drop(data, k) == SubSeq(data, Min(k, Len(data)) + 1, Len(data))

\* secrets.token_bytes(n): one of MaxRandom byte strings of length n
TokenBytes(n) == { [i \in 1..n |-> (r * 37 + i * 11) % ByteMod] : r \in 1..MaxRandom }

(***************************************************************************)
(* hashlib.  Digest absorbs every input byte, in order, into an            *)
(* accumulator (a polynomial in 131 modulo the prime HashPrime, begun at   *)
(* alg, which separates the algorithms) and squeezes n output bytes from   *)
(* it.  The recursion halves the input so that TLC evaluates it shallowly. *)
(***************************************************************************)
HashPrime == 2 ^ 15 - 19

RECURSIVE Pow131(_)
Pow131(n) ==
    IF n = 0 THEN 1
    ELSE LET h == Pow131(n \div 2)
         IN  IF n % 2 = 0 THEN (h * h) % HashPrime
             ELSE (((h * h) % HashPrime) * 131) % HashPrime

\* the polynomial of data[lo..hi]
RECURSIVE Absorb(_, _, _)
Absorb(data, lo, hi) ==
    IF lo > hi THEN 0
    ELSE IF lo = hi THEN (data[lo] + 1) % HashPrime
    ELSE LET mid == (lo + hi) \div 2
         IN  (Absorb(data, lo, mid) * Pow131(hi - mid) + Absorb(data, mid + 1, hi)) % HashPrime

Digest(alg, data, n) ==
    LET \* the j-th output byte of accumulator acc
        Squeeze(acc, j) ==
            LET t == (acc * 75 + j * 1021 + 74) % HashPrime
                u == (t * t + j) % HashPrime
                v == (u * u + t) % HashPrime
            IN  (v \div 8) % ByteMod
    IN  LET acc == ((alg % HashPrime) * Pow131(Len(data)) + Absorb(data, 1, Len(data))) % HashPrime
        IN  [j \in 1..n |-> Squeeze(acc, j)]

sha256(data) == Digest(256, data, 32)
sha512(data) == Digest(512, data, 64)
sha3_256(data) == Digest(3256, data, 32)
sha3_512(data) == Digest(3512, data, 64)
\* hashlib.pbkdf2_hmac('sha3_256', password, salt, iterations=100000, dklen=64)
pbkdf2_hmac(password, salt) == Digest(100000, <<Len(password)>> \o password \o salt, 64)

(***************************************************************************)
(* ChaosGenerator (scbe_engine.py:26-54).                                  *)
(***************************************************************************)
ChaosScale == 2 ^ 12

_init_state(seed) ==
    LET \* int.from_bytes(h[i*8:(i+1)*8], 'big') / 2**64, then 0.1 + 0.8 * that
        InitAxis(h, i) ==
            LET frac == ((h[8 * i + 1] * ByteMod + h[8 * i + 2]) * ChaosScale) \div (ByteMod * ByteMod)
            IN  (ChaosScale \div 10) + (8 * frac) \div 10
    IN  LET h == sha3_512(seed)
        IN  <<InitAxis(h, 0), InitAxis(h, 1), InitAxis(h, 2), InitAxis(h, 3), InitAxis(h, 4)>>

ChaosGenerator(seed) == [seed |-> seed, state |-> _init_state(seed)]

\* ChaosGenerator.iterate on the 5-value state
iterate(state) ==
    LET \* r * x * (1 - x) with r = 3.99
        Logistic(x) == (399 * x * (ChaosScale - x)) \div (100 * ChaosScale)
    IN  <<Logistic(state[1]), Logistic(state[2]), Logistic(state[3]),
          Logistic(state[4]), Logistic(state[5])>>

RECURSIVE StreamLoop(_, _, _)
StreamLoop(state, result, length) ==
    LET \* int(val * 256) % 256 for each axis
        AxisBytes(st) ==
            <<((st[1] * 256) \div ChaosScale) % ByteMod, ((st[2] * 256) \div ChaosScale) % ByteMod,
              ((st[3] * 256) \div ChaosScale) % ByteMod, ((st[4] * 256) \div ChaosScale) % ByteMod,
              ((st[5] * 256) \div ChaosScale) % ByteMod>>
    IN  IF Len(result) >= length THEN [state |-> state, result |-> result]
        ELSE LET s2 == iterate(state)
             IN  StreamLoop(s2, result \o AxisBytes(s2), length)

\* a generate_stream that returns every byte of the iterations it made
GenerateStreamWhole(gen, length) ==
    LET r == StreamLoop(gen.state, <<>>, length)
    IN  [gen |-> [gen EXCEPT !.state = r.state], out |-> r.result]

\* ChaosGenerator.generate_stream: the generator afterwards and the bytes returned
generate_stream(gen, length) ==
    LET r == StreamLoop(gen.state, <<>>, length)
    IN  [gen |-> [gen EXCEPT !.state = r.state], out |-> Take(r.result, length)]

\* n calls of iterate (the halves are forced in turn, which keeps TLC's evaluation shallow)
RECURSIVE IterateTimes(_, _)
IterateTimes(state, n) ==
    IF n = 0 THEN state
    ELSE IF n = 1 THEN iterate(state)
    ELSE LET half == IterateTimes(state, n \div 2)
         IN  IF half[1] >= 0 THEN IterateTimes(half, n - (n \div 2)) ELSE half

(***************************************************************************)
(* SCBEEngine (scbe_engine.py:57-156), with the default SCBEConfig.        *)
(***************************************************************************)
block_size == 16
chaos_iterations == 1000

\* SCBEEngine._chaos = None
NoChaos == [seed |-> <<>>, state |-> <<>>]

\* a derive_key that draws its salt whether or not the caller supplied one
DeriveKeyDrawsSalt(password, salt, drawn) ==
    LET initial == pbkdf2_hmac(password, drawn)
        c0 == ChaosGenerator(initial)
        c1 == [c0 EXCEPT !.state = IterateTimes(c0.state, chaos_iterations)]
        enhanced == generate_stream(c1, 32).out
        final_key == sha3_256(initial \o enhanced)
    IN  drawn \o final_key

\* derive_key(password, salt): salt is {} for None and {s} for the byte string s;
\* drawn is what secrets.token_bytes(16) returns at line 67 when it is called
derive_key(password, salt, drawn) ==
    LET salt1 == IF salt = {} THEN drawn ELSE CHOOSE s \in salt : TRUE
        initial == pbkdf2_hmac(password, salt1)
        c0 == ChaosGenerator(initial)
        c1 == [c0 EXCEPT !.state = IterateTimes(c0.state, chaos_iterations)]
        enhanced == generate_stream(c1, 32).out
        final_key == sha3_256(initial \o enhanced)
    IN  salt1 \o final_key

\* mutant: no padding block is added to data that already fills its blocks
PadToMultiple(size, data) ==
    LET pad_len == (size - (Len(data) % size)) % size
    IN  [raised |-> "", value |-> data \o Fill(pad_len, pad_len)]

\* mutant: the padding bytes are zero, not the pad length
PadWithZeros(size, data) ==
    LET pad_len == size - (Len(data) % size)
    IN  [raised |-> IF pad_len > 255 THEN "ValueError" ELSE "",
         value |-> IF pad_len > 255 THEN <<>> ELSE data \o Fill(pad_len, 0)]

\* _pad(data) on an engine whose config.block_size is size > 0: the exception raised
\* ("" for none) and the bytes returned; bytes([pad_len] * pad_len) raises ValueError
\* for pad_len > 255
_pad(size, data) ==
    LET pad_len == size - (Len(data) % size)
    IN  IF pad_len > 255 THEN [raised |-> "ValueError", value |-> <<>>]
        ELSE [raised |-> "", value |-> data \o Fill(pad_len, pad_len)]

\* data[-1] raises IndexError on empty data; data[:-pad_len] is data[:0] when
\* pad_len = 0 and empty when pad_len >= len(data)
_unpad(data) ==
    IF Len(data) = 0 THEN [raised |-> "IndexError", value |-> <<>>]
    ELSE LET pad_len == data[Len(data)]
         IN  [raised |-> "",
              value |-> IF pad_len = 0 \/ pad_len >= Len(data) THEN <<>>
                        ELSE Take(data, Len(data) - pad_len)]

\* a block loop of encrypt that leaves out the chaining: a block is XORed with the
\* generator's block only
RECURSIVE EncryptBlocksUnchained(_, _, _, _)
EncryptBlocksUnchained(padded, i, prev_block, gen) ==
    IF i > Len(padded) THEN [gen |-> gen, out |-> <<>>]
    ELSE LET block == SubSeq(padded, i, Min(i + block_size - 1, Len(padded)))
             g == generate_stream(gen, block_size)
             encrypted == XorBytes(block, g.out)
             rest == EncryptBlocksUnchained(padded, i + block_size, encrypted, g.gen)
         IN  [gen |-> rest.gen, out |-> encrypted \o rest.out]

\* the block loop of encrypt (lines 107-115): the generator afterwards and the blocks
RECURSIVE EncryptBlocks(_, _, _, _)
EncryptBlocks(padded, i, prev_block, gen) ==
    IF i > Len(padded) THEN [gen |-> gen, out |-> <<>>]
    ELSE LET block == SubSeq(padded, i, Min(i + block_size - 1, Len(padded)))
             xored == XorBytes(block, prev_block)
             g == generate_stream(gen, block_size)
             encrypted == XorBytes(xored, g.out)
             rest == EncryptBlocks(padded, i + block_size, encrypted, g.gen)
         IN  [gen |-> rest.gen, out |-> encrypted \o rest.out]

\* an encrypt whose generator is seeded from the key and the IV
EncryptSeedsIV(plaintext, key, iv) ==
    LET salt == Take(key, 16)
        actual_key == SubSeq(key, Min(16, Len(key)) + 1, Min(48, Len(key)))
        gen == ChaosGenerator(actual_key \o salt \o iv)
        r == EncryptBlocks(_pad(block_size, plaintext).value, 1, iv, gen)
    IN  [chaos |-> r.gen, out |-> iv \o r.out]

\* SCBEEngine.encrypt with the IV drawn at line 98: the engine's _chaos afterwards
\* and the bytes returned
encrypt(plaintext, key, iv) ==
    LET salt == Take(key, 16)
        actual_key == SubSeq(key, Min(16, Len(key)) + 1, Min(48, Len(key)))
        gen == ChaosGenerator(actual_key \o salt)
        r == EncryptBlocks(_pad(block_size, plaintext).value, 1, iv, gen)
    IN  [chaos |-> r.gen, out |-> iv \o r.out]

\* mutant: the chaining is undone with the previous plaintext block
RECURSIVE DecryptBlocksPrevPlain(_, _, _, _)
DecryptBlocksPrevPlain(data, i, prev_block, gen) ==
    IF i > Len(data) THEN [gen |-> gen, out |-> <<>>]
    ELSE LET block == SubSeq(data, i, Min(i + block_size - 1, Len(data)))
             g == generate_stream(gen, block_size)
             xored == XorBytes(block, g.out)
             decrypted == XorBytes(xored, prev_block)
             rest == DecryptBlocksPrevPlain(data, i + block_size, decrypted, g.gen)
         IN  [gen |-> rest.gen, out |-> decrypted \o rest.out]

\* the block loop of decrypt (lines 136-144)
RECURSIVE DecryptBlocks(_, _, _, _)
DecryptBlocks(data, i, prev_block, gen) ==
    IF i > Len(data) THEN [gen |-> gen, out |-> <<>>]
    ELSE LET block == SubSeq(data, i, Min(i + block_size - 1, Len(data)))
             g == generate_stream(gen, block_size)
             xored == XorBytes(block, g.out)
             decrypted == XorBytes(xored, prev_block)
             rest == DecryptBlocks(data, i + block_size, block, g.gen)
         IN  [gen |-> rest.gen, out |-> decrypted \o rest.out]

\* SCBEEngine.decrypt: the engine's _chaos afterwards, the exception raised ("" for
\* none) and the bytes returned
decrypt(ciphertext, key) ==
    LET salt == Take(key, 16)
        actual_key == SubSeq(key, Min(16, Len(key)) + 1, Min(48, Len(key)))
        gen == ChaosGenerator(actual_key \o salt)
        iv == Take(ciphertext, block_size)
        data == Drop(ciphertext, block_size)
        r == DecryptBlocks(data, 1, iv, gen)
        u == _unpad(r.out)
    IN  [chaos |-> r.gen, raised |-> u.raised, value |-> u.value]

(***************************************************************************)
(* Text: str.encode() and bytes.decode(), both UTF-8.                      *)
(***************************************************************************)
\* f[lo] \o ... \o f[hi], by halves
RECURSIVE Flatten(_, _, _)
Flatten(parts, lo, hi) ==
    IF lo > hi THEN <<>>
    ELSE IF lo = hi THEN parts[lo]
    ELSE LET mid == (lo + hi) \div 2
         IN  Flatten(parts, lo, mid) \o Flatten(parts, mid + 1, hi)

encode(text) ==
    LET EncodeChar(c) ==
            IF c < 128 THEN <<c>>
            ELSE IF c < 2048 THEN <<192 + (c \div 64), 128 + (c % 64)>>
            ELSE <<224 + (c \div 4096), 128 + ((c \div 64) % 64), 128 + (c % 64)>>
    IN  Flatten([i \in 1..Len(text) |-> EncodeChar(text[i])], 1, Len(text))

decode(data) ==
    LET IsCont(b) == b >= 128 /\ b < 192
        \* bytes of the character that starts with byte b; 0 when b cannot start one
        CharLen(b) ==
            IF b < 128 THEN 1
            ELSE IF b >= 194 /\ b < 224 THEN 2
            ELSE IF b >= 224 /\ b < 240 THEN 3
            ELSE IF b >= 240 /\ b < 245 THEN 4
            ELSE 0
        \* the character whose first byte is data[i] is well formed
        WellFormedAt(i) ==
            LET b == data[i]
                n == CharLen(b)
            IN  /\ n > 0
                /\ i + n - 1 <= Len(data)
                /\ \A d \in 1..(n - 1) : IsCont(data[i + d])
                /\ (b = 224 => data[i + 1] >= 160)
                /\ (b = 237 => data[i + 1] < 160)
                /\ (b = 240 => data[i + 1] >= 144)
                /\ (b = 244 => data[i + 1] < 144)
        \* the continuation byte data[j] belongs to a character that starts before it
        Covered(j) ==
            \E d \in 1..3 :
                /\ j - d >= 1
                /\ ~IsCont(data[j - d])
                /\ CharLen(data[j - d]) > d
                /\ \A e \in 1..(d - 1) : IsCont(data[j - e])
        CodePointAt(i) ==
            LET b == data[i]
                n == CharLen(b)
            IN  IF n = 1 THEN b
                ELSE IF n = 2 THEN (b % 32) * 64 + (data[i + 1] % 64)
                ELSE IF n = 3 THEN (b % 16) * 4096 + (data[i + 1] % 64) * 64 + (data[i + 2] % 64)
                ELSE (b % 8) * 262144 + (data[i + 1] % 64) * 4096
                         + (data[i + 2] % 64) * 64 + (data[i + 3] % 64)
        starts == { i \in 1..Len(data) : ~IsCont(data[i]) }
        rank(i) == Cardinality({ j \in starts : j <= i })
    IN  IF \A i \in 1..Len(data) : data[i] < 128
        THEN [raised |-> "", text |-> data]
        ELSE IF \E i \in 1..Len(data) :
                    IF IsCont(data[i]) THEN ~Covered(i) ELSE ~WellFormedAt(i)
        THEN [raised |-> "UnicodeDecodeError", text |-> <<>>]
        ELSE [raised |-> "",
              text |-> [k \in 1..Cardinality(starts) |->
                           CodePointAt(CHOOSE i \in starts : rank(i) = k)]]

(***************************************************************************)
(* Python values that cross json: str, int, float, None, bool, and a dict  *)
(* of them.  A float is a whole number of seconds and a number of quarter  *)
(* seconds, which repr() prints and float() reads back exactly.            *)
(***************************************************************************)
PyStr(s) == [t |-> "str", s |-> s, n |-> 0, q |-> 0]
PyInt(n) == [t |-> "int", s |-> <<>>, n |-> n, q |-> 0]
PyFloat(n, q) == [t |-> "float", s |-> <<>>, n |-> n, q |-> q]
None == [t |-> "NoneType", s |-> <<>>, n |-> 0, q |-> 0]

Scalar(v) == [kind |-> "scalar", scalar |-> v, items |-> <<>>]
Dict(items) == [kind |-> "dict", scalar |-> None, items |-> items]
Item(k, v) == [key |-> k, value |-> v]

\* == of two such values: a dict compares by its items, in any order
PyEq(a, b) ==
    /\ a.kind = b.kind
    /\ a.scalar = b.scalar
    /\ Len(a.items) = Len(b.items)
    /\ { a.items[i] : i \in 1..Len(a.items) } = { b.items[i] : i \in 1..Len(b.items) }

\* d[k]; the lookup raises KeyError when k is not a key of d
GetItem(d, k) ==
    IF \E i \in 1..Len(d.items) : d.items[i].key = k
    THEN [raised |-> "", value |-> d.items[CHOOSE i \in 1..Len(d.items) : d.items[i].key = k].value]
    ELSE [raised |-> "KeyError", value |-> None]

\* d[k] = v
SetItem(items, k, v) ==
    IF \E i \in 1..Len(items) : items[i].key = k
    THEN [items EXCEPT ![CHOOSE i \in 1..Len(items) : items[i].key = k].value = v]
    ELSE Append(items, Item(k, v))

(***************************************************************************)
(* json.dumps and json.loads, on the values above.                         *)
(***************************************************************************)

Quote(s) ==
    LET \* py_encode_basestring_ascii: one character of a string literal
        EscapeChar(c) ==
            LET HexDigit(d) == IF d < 10 THEN 48 + d ELSE 87 + d
            IN  IF c = 34 THEN <<92, 34>>
                ELSE IF c = 92 THEN <<92, 92>>
                ELSE IF c = 10 THEN <<92, 110>>
                ELSE IF c = 13 THEN <<92, 114>>
                ELSE IF c = 9 THEN <<92, 116>>
                ELSE IF c = 8 THEN <<92, 98>>
                ELSE IF c = 12 THEN <<92, 102>>
                ELSE IF c < 32 \/ c > 126
                     THEN <<92, 117, HexDigit((c \div 4096) % 16), HexDigit((c \div 256) % 16),
                                     HexDigit((c \div 16) % 16), HexDigit(c % 16)>>
                ELSE <<c>>
    IN  <<34>> \o Flatten([i \in 1..Len(s) |-> EscapeChar(s[i])], 1, Len(s)) \o <<34>>

IntRepr(n) ==
    LET RECURSIVE Digits(_)
        Digits(k) == IF k < 10 THEN <<48 + k>> ELSE Digits(k \div 10) \o <<48 + (k % 10)>>
    IN  IF n < 0 THEN <<45>> \o Digits(0 - n) ELSE Digits(n)

\* the decimals of a number of quarters: 0, 25, 5, 75
QuarterDigits == << <<48>>, <<50, 53>>, <<53>>, <<55, 53>> >>

\* float.__repr__, which str() and json.dumps both print
FloatRepr(f) == IntRepr(f.n) \o <<46>> \o QuarterDigits[f.q + 1]

DumpScalar(v) ==
    IF v.t = "str" THEN Quote(v.s)
    ELSE IF v.t = "int" THEN IntRepr(v.n)
    ELSE IF v.t = "float" THEN FloatRepr(v)
    ELSE IF v.t = "bool" THEN (IF v.n = 1 THEN <<116, 114, 117, 101>>
                                          ELSE <<102, 97, 108, 115, 101>>)
    ELSE <<110, 117, 108, 108>>

dumps(v) ==
    LET \* a key that is not a str is printed as one
        DumpKey(k) == IF k.t = "str" THEN Quote(k.s) ELSE <<34>> \o DumpScalar(k) \o <<34>>
        DumpItem(it, first) ==
            (IF first THEN <<>> ELSE <<44, 32>>) \o DumpKey(it.key) \o <<58, 32>> \o DumpScalar(it.value)
    IN  IF v.kind = "scalar" THEN DumpScalar(v.scalar)
        ELSE <<123>>
             \o Flatten([i \in 1..Len(v.items) |-> DumpItem(v.items[i], i = 1)], 1, Len(v.items))
             \o <<125>>

IsDigit(c) == c >= 48 /\ c <= 57

\* the first position at or after i that holds no whitespace
RECURSIVE SkipWs(_, _)
SkipWs(s, i) == IF i <= Len(s) /\ s[i] \in {32, 9, 10, 13} THEN SkipWs(s, i + 1) ELSE i

\* an odd number of backslashes ends right before position j
RECURSIVE Escaped(_, _)
Escaped(s, j) == j > 1 /\ s[j - 1] = 92 /\ ~Escaped(s, j - 1)

\* the string a literal's body stands for
Unquote(body) ==
    LET HexValue(c) ==
            IF c >= 48 /\ c <= 57 THEN c - 48
            ELSE IF c >= 97 /\ c <= 102 THEN c - 87
            ELSE IF c >= 65 /\ c <= 70 THEN c - 55
            ELSE 0 - 1
        \* position i of a literal's body is one of the four hex digits of a \u escape
        InUnicodeEscape(s, i) ==
            \E d \in 1..4 : i - d >= 1 /\ s[i - d] = 117 /\ Escaped(s, i - d)
        \* position i of a literal's body starts a character: it is neither the second
        \* character of an escape nor a hex digit of one
        UnitStart(s, i) == ~Escaped(s, i) /\ ~InUnicodeEscape(s, i)
        UnitOk(s, i) ==
            IF s[i] # 92 THEN s[i] >= 32
            ELSE /\ i + 1 <= Len(s)
                 /\ \/ s[i + 1] \in {34, 92, 47, 98, 102, 110, 114, 116}
                    \/ /\ s[i + 1] = 117
                       /\ i + 5 <= Len(s)
                       /\ \A d \in 2..5 : HexValue(s[i + d]) >= 0
        UnitChar(s, i) ==
            IF s[i] # 92 THEN s[i]
            ELSE LET e == s[i + 1]
                 IN  IF e = 98 THEN 8
                     ELSE IF e = 102 THEN 12
                     ELSE IF e = 110 THEN 10
                     ELSE IF e = 114 THEN 13
                     ELSE IF e = 116 THEN 9
                     ELSE IF e = 117 THEN HexValue(s[i + 2]) * 4096 + HexValue(s[i + 3]) * 256
                                              + HexValue(s[i + 4]) * 16 + HexValue(s[i + 5])
                     ELSE e
    IN  IF \A i \in 1..Len(body) : body[i] # 92 /\ body[i] >= 32
        THEN [ok |-> TRUE, s |-> body]
        ELSE LET starts == { i \in 1..Len(body) : UnitStart(body, i) }
                 rank(i) == Cardinality({ j \in starts : j <= i })
             IN  IF \E i \in starts : ~UnitOk(body, i)
                 THEN [ok |-> FALSE, s |-> <<>>]
                 ELSE [ok |-> TRUE,
                       s |-> [k \in 1..Cardinality(starts) |->
                                 UnitChar(body, CHOOSE i \in starts : rank(i) = k)]]

ParseFail(why) == [why |-> why, value |-> None, next |-> 0]

\* a string literal that opens at position i
ParseString(s, i) ==
    LET closes == { j \in (i + 1)..Len(s) : s[j] = 34 /\ ~Escaped(s, j) }
    IN  IF closes = {} THEN ParseFail("JSONDecodeError")
        ELSE Let(CHOOSE j \in closes : \A k \in closes : j <= k, LAMBDA close :
             Let(Unquote(SubSeq(s, i + 1, close - 1)), LAMBDA u :
                 IF u.ok THEN [why |-> "", value |-> PyStr(u.s), next |-> close + 1]
                 ELSE ParseFail("JSONDecodeError")))

\* a number that starts at position i: an int, or a float with quarters for decimals;
\* the parser stops where the number stops matching
ParseNumber(s, i) ==
    LET \* the position after the run of digits that starts at j
        RECURSIVE DigitsEnd(_)
        DigitsEnd(j) == IF j <= Len(s) /\ IsDigit(s[j]) THEN DigitsEnd(j + 1) ELSE j
        RECURSIVE DigitsValue(_, _)
        DigitsValue(from, to) ==
            IF from > to THEN 0 ELSE DigitsValue(from, to - 1) * 10 + (s[to] - 48)
        neg == s[i] = 45
        lo == IF neg THEN i + 1 ELSE i
        hi == IF lo <= Len(s) /\ s[lo] = 48 THEN lo + 1 ELSE DigitsEnd(lo)
        mag == DigitsValue(lo, hi - 1)
        fhi == IF hi + 1 <= Len(s) /\ s[hi] = 46 /\ IsDigit(s[hi + 1])
               THEN DigitsEnd(hi + 1) ELSE hi
        frac == SubSeq(s, hi + 1, fhi - 1)
    IN  IF hi = lo THEN ParseFail("JSONDecodeError")
        ELSE IF hi - lo > 9 /\ ~(hi - lo = 10 /\ s[lo] = 49) THEN ParseFail("unsupported")
        ELSE IF fhi <= Len(s) /\ s[fhi] \in {101, 69} THEN ParseFail("unsupported")
        ELSE IF fhi = hi
             THEN [why |-> "", value |-> PyInt(IF neg THEN 0 - mag ELSE mag), next |-> hi]
        ELSE IF neg \/ ~(\E q \in 1..4 : QuarterDigits[q] = frac) THEN ParseFail("unsupported")
        ELSE [why |-> "",
              value |-> PyFloat(mag, (CHOOSE q \in 1..4 : QuarterDigits[q] = frac) - 1),
              next |-> fhi]

\* a value that is not a dict, at position i
ParseScalar(s, i) ==
    LET Literal(word, v) ==
            IF SubSeq(s, i, Min(Len(s), i + Len(word) - 1)) = word
            THEN [why |-> "", value |-> v, next |-> i + Len(word)]
            ELSE ParseFail("JSONDecodeError")
        True == [t |-> "bool", s |-> <<>>, n |-> 1, q |-> 0]
        False == [t |-> "bool", s |-> <<>>, n |-> 0, q |-> 0]
    IN  IF i > Len(s) THEN ParseFail("JSONDecodeError")
        ELSE IF s[i] = 34 THEN ParseString(s, i)
        ELSE IF s[i] = 45 /\ i + 1 <= Len(s) /\ s[i + 1] = 73 THEN ParseFail("unsupported")
        ELSE IF s[i] = 45 \/ IsDigit(s[i]) THEN ParseNumber(s, i)
        ELSE IF s[i] = 110 THEN Literal(<<110, 117, 108, 108>>, None)
        ELSE IF s[i] = 116 THEN Literal(<<116, 114, 117, 101>>, True)
        ELSE IF s[i] = 102 THEN Literal(<<102, 97, 108, 115, 101>>, False)
        ELSE IF s[i] \in {91, 123, 78, 73} THEN ParseFail("unsupported")
        ELSE ParseFail("JSONDecodeError")

\* the members of an object from position i, where a key is due; items holds the
\* members read so far
RECURSIVE ParseMembers(_, _, _)
ParseMembers(s, i, items) ==
    LET Fail == [why |-> "JSONDecodeError", items |-> <<>>, next |-> 0]
    IN  IF i > Len(s) \/ s[i] # 34 THEN Fail
        ELSE Let(ParseString(s, i), LAMBDA k :
             Let(IF k.why = "" THEN SkipWs(s, k.next) ELSE 0, LAMBDA colon :
             Let(IF k.why = "" /\ colon <= Len(s) /\ s[colon] = 58
                 THEN ParseScalar(s, SkipWs(s, colon + 1))
                 ELSE ParseFail("JSONDecodeError"), LAMBDA v :
             Let(IF v.why = "" THEN SkipWs(s, v.next) ELSE 0, LAMBDA after :
                 IF v.why # "" THEN [why |-> v.why, items |-> <<>>, next |-> 0]
                 ELSE IF after > Len(s) THEN Fail
                 ELSE IF s[after] = 125
                      THEN [why |-> "", items |-> SetItem(items, k.value, v.value),
                            next |-> after + 1]
                 ELSE IF s[after] = 44
                      THEN ParseMembers(s, SkipWs(s, after + 1),
                                        SetItem(items, k.value, v.value))
                 ELSE Fail))))

\* json.loads(s): the value, or the exception raised; "unsupported" marks JSON that
\* lies outside the values above (a list, a nested dict, an exponent)
loads(s) ==
    Let(SkipWs(s, 1), LAMBDA i :
    Let(IF i <= Len(s) /\ s[i] = 123
        THEN Let(SkipWs(s, i + 1), LAMBDA j :
                 IF j <= Len(s) /\ s[j] = 125
                 THEN [why |-> "", value |-> Dict(<<>>), next |-> j + 1]
                 ELSE Let(ParseMembers(s, j, <<>>), LAMBDA m :
                          [why |-> m.why, value |-> Dict(m.items), next |-> m.next]))
        ELSE Let(ParseScalar(s, i), LAMBDA x :
                 [why |-> x.why, value |-> Scalar(x.value), next |-> x.next]), LAMBDA v :
        IF v.why # "" THEN [raised |-> v.why, value |-> Scalar(None)]
        ELSE IF SkipWs(s, v.next) <= Len(s)
             THEN [raised |-> "JSONDecodeError", value |-> Scalar(None)]
        ELSE [raised |-> "", value |-> v.value]))

(***************************************************************************)
(* base64.b64encode, base64.b64decode and bytes.hex().upper().             *)
(***************************************************************************)

B64Value(c) ==
    IF c >= 65 /\ c <= 90 THEN c - 65
    ELSE IF c >= 97 /\ c <= 122 THEN c - 71
    ELSE IF c >= 48 /\ c <= 57 THEN c + 4
    ELSE IF c = 43 THEN 62
    ELSE IF c = 47 THEN 63
    ELSE 0 - 1

b64encode(data) ==
    LET B64Char(v) ==
            IF v < 26 THEN 65 + v
            ELSE IF v < 52 THEN 71 + v
            ELSE IF v < 62 THEN v - 4
            ELSE IF v = 62 THEN 43
            ELSE 47
    IN  LET n == Len(data)
            B(i) == IF i <= n THEN data[i] ELSE 0
        IN  <<>> \o
            [j \in 1..(4 * ((n + 2) \div 3)) |->
                LET k == (j - 1) \div 4
                    p == (j - 1) % 4
                    b0 == B(3 * k + 1)
                    b1 == B(3 * k + 2)
                    b2 == B(3 * k + 3)
                IN  IF p = 0 THEN B64Char(b0 \div 4)
                    ELSE IF p = 1 THEN B64Char((b0 % 4) * 16 + (b1 \div 16))
                    ELSE IF p = 2 THEN (IF 3 * k + 2 > n THEN 61
                                        ELSE B64Char((b1 % 16) * 4 + (b2 \div 64)))
                    ELSE IF 3 * k + 3 > n THEN 61 ELSE B64Char(b2 % 64)]

\* a b64decode that does not take the padding off the length of its result
B64DecodeKeepPad(s) ==
    [raised |-> IF Len(s) % 4 # 0 THEN "binascii.Error" ELSE "",
     value |-> [i \in 1..(3 * (Len(s) \div 4)) |->
                  LET k == (i - 1) \div 3
                      p == (i - 1) % 3
                      V(j) == IF s[j] = 61 THEN 0 ELSE B64Value(s[j])
                  IN  IF p = 0 THEN V(4 * k + 1) * 4 + (V(4 * k + 2) \div 16)
                      ELSE IF p = 1 THEN (V(4 * k + 2) % 16) * 16 + (V(4 * k + 3) \div 4)
                      ELSE (V(4 * k + 3) % 4) * 64 + V(4 * k + 4)]]

\* b64decode of a string; "unsupported" marks strings with characters outside the
\* alphabet, which the library discards before it decodes
b64decode(s) ==
    LET m == Len(s)
        pads == IF m >= 2 /\ s[m] = 61 /\ s[m - 1] = 61 THEN 2
                ELSE IF m >= 1 /\ s[m] = 61 THEN 1 ELSE 0
        V(i) == IF s[i] = 61 THEN 0 ELSE B64Value(s[i])
    IN  IF \E i \in 1..(m - pads) : B64Value(s[i]) < 0
        THEN [raised |-> "unsupported", value |-> <<>>]
        ELSE IF m % 4 # 0 THEN [raised |-> "binascii.Error", value |-> <<>>]
        ELSE [raised |-> "",
              value |-> <<>> \o
                  [i \in 1..(3 * (m \div 4) - pads) |->
                      LET k == (i - 1) \div 3
                          p == (i - 1) % 3
                          v0 == V(4 * k + 1)
                          v1 == V(4 * k + 2)
                          v2 == V(4 * k + 3)
                          v3 == V(4 * k + 4)
                      IN  IF p = 0 THEN v0 * 4 + (v1 \div 16)
                          ELSE IF p = 1 THEN (v1 % 16) * 16 + (v2 \div 4)
                          ELSE (v2 % 4) * 64 + v3]]

(***************************************************************************)
(* The semantic binding: LWSEngine.compute_gematria, and the binding that  *)
(* derives a key from a passphrase and signs a subject under it.           *)
(***************************************************************************)

\* gematria_map[unit] for a unit of one or two characters; 0 when the unit is no key
\* of the map (no value of the map is 0)
gematria_map(unit) ==
    IF Len(unit) = 2
    THEN IF unit = <<99, 104>> THEN 8                       \* ch
         ELSE IF unit = <<116, 115>> THEN 90                \* ts
         ELSE IF unit = <<115, 104>> THEN 300               \* sh
         ELSE IF unit = <<116, 104>> THEN 400               \* th
         ELSE 0
    ELSE IF Len(unit) # 1 THEN 0
    ELSE LET c == unit[1]
         IN  IF c = 97 THEN 1                               \* a
             ELSE IF c = 98 THEN 2                          \* b
             ELSE IF c = 103 THEN 3                         \* g
             ELSE IF c = 100 THEN 4                         \* d
             ELSE IF c = 104 THEN 5                         \* h
             ELSE IF c = 118 \/ c = 119 THEN 6              \* v, w
             ELSE IF c = 122 THEN 7                         \* z
             ELSE IF c = 116 THEN 9                         \* t
             ELSE IF c = 121 \/ c = 105 THEN 10             \* y, i
             ELSE IF c = 107 \/ c = 99 THEN 20              \* k, c
             ELSE IF c = 108 THEN 30                        \* l
             ELSE IF c = 109 THEN 40                        \* m
             ELSE IF c = 110 THEN 50                        \* n
             ELSE IF c = 115 THEN 60                        \* s
             ELSE IF c = 111 THEN 70                        \* o
             ELSE IF c = 112 \/ c = 102 THEN 80             \* p, f
             ELSE IF c = 113 THEN 100                       \* q
             ELSE IF c = 114 THEN 200                       \* r
             ELSE IF c = 101 THEN 5                         \* e
             ELSE IF c = 117 THEN 6                         \* u
             ELSE 0

\* a scan that never looks for a digraph
RECURSIVE GematriaByLetter(_, _)
GematriaByLetter(text, i) ==
    IF i > Len(text) THEN 0
    ELSE gematria_map(<<text[i]>>) + GematriaByLetter(text, i + 1)

\* the while loop of compute_gematria from index i - 1 on
RECURSIVE GematriaFrom(_, _)
GematriaFrom(text, i) ==
    IF i > Len(text) THEN 0
    ELSE IF i + 1 <= Len(text) /\ gematria_map(<<text[i], text[i + 1]>>) > 0
         THEN gematria_map(<<text[i], text[i + 1]>>) + GematriaFrom(text, i + 2)
    ELSE gematria_map(<<text[i]>>) + GematriaFrom(text, i + 1)

compute_gematria(text) ==
    LET lower(s) == [i \in 1..Len(s) |-> IF s[i] >= 65 /\ s[i] <= 90 THEN s[i] + 32 ELSE s[i]]
    IN  GematriaFrom(lower(text), 1)

\* an unsigned integer as 8 bytes, most significant first
PackInt(n) == <<0, 0, 0, 0, (n \div 16777216) % ByteMod, (n \div 65536) % ByteMod,
                (n \div 256) % ByteMod, n % ByteMod>>

\* LWSCryptoBinding.derive_key(passphrase): the passphrase's score and text, hashed
binding_derive_key(passphrase) ==
    sha256(PackInt(compute_gematria(passphrase)) \o encode(passphrase))

\* LWSCryptoBinding.semantic_signature(subject, key): a hash, keyed by key, over the
\* subject's score and text
semantic_signature(subject, key) ==
    sha512(key \o PackInt(compute_gematria(subject)) \o encode(subject))

(***************************************************************************)
(* Floats of the geometry: a float is a whole number of thousandths, or    *)
(* NaN; a complex number is a record of two.  A product or quotient of     *)
(* complex numbers is NaN in both parts once any part of an operand is.    *)
(***************************************************************************)
GeoScale == 10 ^ 3
NaN == 0 - 2 ^ 30
Inf == 2 ^ 30

IsNaN(x) == x = NaN
Abs(x) == IF x < 0 THEN 0 - x ELSE x
Max(a, b) == IF a < b THEN b ELSE a

\* a / b, rounded towards zero
Quot(a, b) == IF (a < 0) = (b < 0) THEN Abs(a) \div Abs(b) ELSE 0 - (Abs(a) \div Abs(b))

\* the integer square root, rounded down and never above 46340, whose square is the
\* largest a 32-bit int holds: three digits to base 36, the highest first
Isqrt(n) ==
    LET Fits(r) == r <= 46340 /\ r * r <= n
        Digit(base, step) ==
            CHOOSE d \in 0..35 : Fits(base + d * step)
                                    /\ (d = 35 \/ ~Fits(base + (d + 1) * step))
    IN  IF n <= 0 THEN 0
        ELSE Let(Digit(0, 1296) * 1296, LAMBDA high :
             Let(high + Digit(high, 36) * 36, LAMBDA mid : mid + Digit(mid, 1)))

Complex(re, im) == [re |-> re, im |-> im]
CNaN == Complex(NaN, NaN)
HasNaN(z) == IsNaN(z.re) \/ IsNaN(z.im)

FAdd(x, y) ==
    IF IsNaN(x) \/ IsNaN(y) THEN NaN ELSE IF x = Inf \/ y = Inf THEN Inf ELSE x + y
FSub(x, y) == IF IsNaN(y) THEN NaN ELSE FAdd(x, 0 - y)
CSub(a, b) == Complex(FSub(a.re, b.re), FSub(a.im, b.im))
Conj(z) == Complex(z.re, IF IsNaN(z.im) THEN NaN ELSE 0 - z.im)

\* a * b in squared units
CMulRaw(a, b) ==
    IF HasNaN(a) \/ HasNaN(b) THEN CNaN
    ELSE Complex(a.re * b.re - a.im * b.im, a.re * b.im + a.im * b.re)

\* z * (num / den) for a real factor
CScale(z, num, den) ==
    IF HasNaN(z) THEN CNaN ELSE Complex(Quot(z.re * num, den), Quot(z.im * num, den))

\* |z| squared, in squared units
Norm2(z) == z.re * z.re + z.im * z.im

\* abs(z) >= 1; a comparison with NaN is false
AbsGeOne(z) == ~HasNaN(z) /\ Norm2(z) >= GeoScale * GeoScale

\* two complex numbers brought, by one factor, to a size whose squares fit the
\* integers; their quotient is unchanged
RECURSIVE RescalePair(_, _)
RescalePair(n, d) ==
    LET m == Max(Max(Abs(n.re), Abs(n.im)), Max(Abs(d.re), Abs(d.im)))
    IN  IF m > 30000
        THEN RescalePair(Complex(Quot(n.re, 2), Quot(n.im, 2)), Complex(Quot(d.re, 2), Quot(d.im, 2)))
        ELSE IF m < 15000
        THEN RescalePair(Complex(n.re * 2, n.im * 2), Complex(d.re * 2, d.im * 2))
        ELSE [n |-> n, d |-> d]

\* w / (abs(w) + 1e-10) * 0.9999 for w # 0: the point of radius 0.9999 in the
\* direction of w
ToBoundary(w) ==
    IF HasNaN(w) THEN CNaN
    ELSE Let(RescalePair(w, w).n, LAMBDA v :
         Let(Isqrt(Norm2(v)) + 1, LAMBDA m :
             Complex(Quot(v.re * 9999, 10 * m), Quot(v.im * 9999, 10 * m))))

\* struct.unpack('>d', b)[0] % 1.0 of eight bytes b
UnpackFrac(b) ==
    LET Exponent == (b[1] % 128) * 16 + (b[2] \div 16)
        \* bit j of the significand: bit 0 is the hidden one, bits 1..52 are stored
        SigBit(j) ==
            IF j < 0 \/ j > 52 THEN 0
            ELSE IF j = 0 THEN (IF Exponent > 0 THEN 1 ELSE 0)
            ELSE IF j <= 4 THEN (b[2] \div (2 ^ (4 - j))) % 2
            ELSE (b[3 + ((j - 5) \div 8)] \div (2 ^ (7 - ((j - 5) % 8)))) % 2
        e == Max(Exponent, 1) - 1023
        \* places k..20 of the fraction; the fraction is read to twenty binary places
        RECURSIVE FracTop(_)
        FracTop(k) ==
            IF k > 20 THEN 0 ELSE SigBit(e + k) * ((2 ^ 20) \div (2 ^ k)) + FracTop(k + 1)
        top == FracTop(1)
        rest == \E j \in Max(0, e + 21)..52 : SigBit(j) = 1
        frac == (top * GeoScale) \div (2 ^ 20)
    IN  IF Exponent = 2047 THEN NaN
        ELSE IF b[1] < 128 THEN frac
        ELSE IF top = 0 /\ ~rest THEN 0
        ELSE GeoScale - frac

\* struct.pack('>d', x): eight bytes that tell any two floats of the model apart
PackDouble(x) ==
    IF IsNaN(x) THEN <<127, 248, 0, 0, 0, 0, 0, 0>>
    ELSE <<IF x < 0 THEN 191 ELSE 63, 0, 0, 0, 0,
           (Abs(x) \div 65536) % ByteMod, (Abs(x) \div 256) % ByteMod, Abs(x) % ByteMod>>

(***************************************************************************)
(* HyperbolicPoint, PoincareTransform and HyperbolicSpace.                 *)
(***************************************************************************)
\* HyperbolicPoint(z): __post_init__ pulls a point outside the disk to its boundary
HyperbolicPoint(z) == [z |-> IF AbsGeOne(z) THEN ToBoundary(z) ELSE z]

PoincareTransform(a, b, c, d) == [a |-> a, b |-> b, c |-> c, d |-> d]

apply(t, z) ==
    LET \* a * z + b in squared units
        CAdd(x, y) == Complex(FAdd(x.re, y.re), FAdd(x.im, y.im))
        Linear(a, w, b) == CAdd(CMulRaw(a, w), CScale(b, GeoScale, 1))
        \* n / d for |n| < |d|, both of one scale
        CDivInside(n, d) ==
            LET w == CMulRaw(n, Conj(d))
                n2 == Norm2(d) \div GeoScale
                r == Complex(Quot(w.re, n2), Quot(w.im, n2))
            IN  IF AbsGeOne(r) THEN ToBoundary(w) ELSE r
        \* n / d, brought to radius 0.9999, for |n| >= |d| > 0
        CDivOutside(n, d) == ToBoundary(CMulRaw(RescalePair(n, n).n, Conj(RescalePair(d, d).n)))
    IN  Let(Linear(t.c, z, t.d), LAMBDA denominator :
        Let(Linear(t.a, z, t.b), LAMBDA numerator :
            IF ~HasNaN(denominator) /\ denominator.re = 0 /\ denominator.im = 0
            THEN Complex((9999 * GeoScale) \div 10000, 0)
            ELSE IF HasNaN(numerator) \/ HasNaN(denominator) THEN CNaN
            ELSE Let(RescalePair(numerator, denominator), LAMBDA s :
                     IF Norm2(s.n) >= Norm2(s.d)
                     THEN CDivOutside(numerator, denominator)
                     ELSE CDivInside(s.n, s.d))))

from_key(key) ==
    LET Half(x) == IF IsNaN(x) THEN NaN ELSE x \div 2
        bytes_to_complex(bs) ==
            Complex(Half(UnpackFrac(SubSeq(bs, 1, 8))), Half(UnpackFrac(SubSeq(bs, 9, 16))))
    IN
    Let(sha512(key), LAMBDA h :
    Let([k \in 1..4 |-> bytes_to_complex(SubSeq(h, 16 * k - 15, 16 * k))], LAMBDA parts :
        LET a == parts[1]
            b == parts[2]
            c == parts[3]
            d == parts[4]
        IN  Let(CSub(CMulRaw(a, d), CMulRaw(b, c)), LAMBDA det :
                IF ~HasNaN(det) /\ det.re = 0 /\ det.im = 0
                THEN PoincareTransform(a, b, c, Complex(FAdd(d.re, GeoScale \div 10), d.im))
                ELSE PoincareTransform(a, b, c, d))))

Layers == 13

\* 1 + LAYER_CURVATURES[i] * 0.1 with LAYER_CURVATURES[i] = -1 / PHI ** i, in
\* hundred-thousandths
CurvatureScale ==
    <<90000, 93820, 96180, 97639, 98541, 99098, 99443, 99656, 99787, 99868, 99919,
      99950, 99969>>

_generate_layer_transforms(master_key) ==
    [i \in 1..Layers |-> from_key(sha256(master_key \o <<i - 1>>))]

HyperbolicSpace(master_key) ==
    [master_key |-> master_key, layer_transforms |-> _generate_layer_transforms(master_key)]

\* the distance, in ten-thousandths
hyperbolic_distance(z1, z2) ==
    LET CMul(a, b) ==
            LET p == CMulRaw(a, b)
            IN  IF HasNaN(p) THEN CNaN ELSE Complex(Quot(p.re, GeoScale), Quot(p.im, GeoScale))
        \* abs(z), in ten-thousandths
        CAbs(z) == IF HasNaN(z) THEN NaN ELSE Isqrt(Norm2(z) * 100)
        AtanhSeries(y) ==
            LET y2 == (y * y) \div 10000
                y3 == (y2 * y) \div 10000
                y5 == (y3 * y2) \div 10000
                y7 == (y5 * y2) \div 10000
            IN  y + (y3 \div 3) + (y5 \div 5) + (y7 \div 7)
        \* ln(p / q) for p >= q > 0, in ten-thousandths
        RECURSIVE Ln(_, _)
        Ln(p, q) ==
            IF p >= 2 * q THEN 6931 + Ln(p, 2 * q)
            ELSE 2 * AtanhSeries(((p - q) * 10000) \div (p + q))
    IN  LET numerator == CAbs(CSub(z1, z2))
            denominator == CAbs(CSub(Complex(GeoScale, 0), CMul(Conj(z1), z2)))
        IN  IF IsNaN(numerator) \/ IsNaN(denominator) THEN NaN
            ELSE IF denominator = 0 THEN Inf
            ELSE LET r == (numerator * 10000) \div denominator
                     ratio == IF r >= 10000 THEN 9999 ELSE r
                 IN  Ln(10000 + ratio, 10000 - ratio)

encode_point(data) ==
    Let(sha256(data), LAMBDA h :
    Let(Complex(FSub(UnpackFrac(SubSeq(h, 1, 8)), GeoScale \div 2),
                FSub(UnpackFrac(SubSeq(h, 9, 16)), GeoScale \div 2)), LAMBDA z :
        HyperbolicPoint(IF AbsGeOne(z)
                        THEN LET m == (Isqrt(Norm2(z) * 100) \div 10) + (GeoScale \div 10)
                             IN  Complex(Quot(z.re * 9 * GeoScale, 10 * m),
                                         Quot(z.im * 9 * GeoScale, 10 * m))
                        ELSE z)))

\* a traversal that leaves out the last layer
RECURSIVE TraverseAllButLast(_, _, _, _)
TraverseAllButLast(space, current, lo, hi) ==
    IF lo > hi \/ lo = Layers THEN [points |-> <<>>, current |-> current]
    ELSE IF lo = hi
    THEN Let(apply(space.layer_transforms[lo], CScale(current, CurvatureScale[lo], 100000)),
             LAMBDA next : [points |-> <<HyperbolicPoint(next)>>, current |-> next])
    ELSE Let(TraverseAllButLast(space, current, lo, (lo + hi) \div 2), LAMBDA first :
         Let(TraverseAllButLast(space, first.current, ((lo + hi) \div 2) + 1, hi), LAMBDA rest :
             [points |-> first.points \o rest.points, current |-> rest.current]))

\* the loop of traverse_layers over layers lo..hi, entered with current: the points
\* appended and current afterwards (the halves are run in turn, which keeps TLC's
\* evaluation shallow)
RECURSIVE TraverseFrom(_, _, _, _)
TraverseFrom(space, current, lo, hi) ==
    IF lo > hi THEN [points |-> <<>>, current |-> current]
    ELSE IF lo = hi
    THEN Let(apply(space.layer_transforms[lo], CScale(current, CurvatureScale[lo], 100000)),
             LAMBDA next : [points |-> <<HyperbolicPoint(next)>>, current |-> next])
    ELSE Let(TraverseFrom(space, current, lo, (lo + hi) \div 2), LAMBDA first :
         Let(TraverseFrom(space, first.current, ((lo + hi) \div 2) + 1, hi), LAMBDA rest :
             [points |-> first.points \o rest.points, current |-> rest.current]))

traverse_layers(space, point) ==
    <<HyperbolicPoint(point.z)>> \o TraverseFrom(space, point.z, 1, Layers).points

compute_security_hash(space, data) ==
    Let(traverse_layers(space, encode_point(data)), LAMBDA trajectory :
        sha512(Flatten([i \in 1..Len(trajectory) |->
                           PackDouble(trajectory[i].z.re) \o PackDouble(trajectory[i].z.im)],
                       1, Len(trajectory))))

\* a verify_trajectory_integrity that holds each point against the farthest point
\* before it, not against its predecessor
VerifyAgainstFarthest(space, trajectory) ==
    LET FLess(a, b) == ~IsNaN(a) /\ ~IsNaN(b) /\ a < b
    IN  IF Len(trajectory) # Layers + 1 THEN FALSE
        ELSE Let([i \in 1..Len(trajectory) |-> hyperbolic_distance(Complex(0, 0), trajectory[i].z)],
                 LAMBDA distances :
                 \A i \in 2..Len(distances) : \A k \in 1..(i - 1) :
                     ~FLess(distances[i], FSub(distances[k], 100)))

verify_trajectory_integrity(space, trajectory) ==
    LET \* a < b on floats: false when either is NaN
        FLess(a, b) == ~IsNaN(a) /\ ~IsNaN(b) /\ a < b
        \* 0.01, in ten-thousandths
        tolerance == 100
    IN  IF Len(trajectory) # Layers + 1 THEN FALSE
        ELSE Let([i \in 1..Len(trajectory) |-> hyperbolic_distance(Complex(0, 0), trajectory[i].z)],
                 LAMBDA distances :
                 \A i \in 2..Len(distances) :
                     ~FLess(distances[i], FSub(distances[i - 1], tolerance)))

(***************************************************************************)
(* AuthorizationToken and SpiralverseSystem.                               *)
(***************************************************************************)
PROTOCOL_ID ==
    <<83, 80, 73, 82, 65, 76, 86, 69, 82, 83, 69, 45, 65, 69, 84, 72, 69, 82, 77, 79, 79,
      82, 69, 45, 81, 82>>                      \* 'SPIRALVERSE-AETHERMOORE-QR'

\* the keys of a token's dict, in the order of the dataclass's fields
Fields ==
    [token_id |-> PyStr(<<116, 111, 107, 101, 110, 95, 105, 100>>),
     subject |-> PyStr(<<115, 117, 98, 106, 101, 99, 116>>),
     timestamp |-> PyStr(<<116, 105, 109, 101, 115, 116, 97, 109, 112>>),
     geometric_signature |->
         PyStr(<<103, 101, 111, 109, 101, 116, 114, 105, 99, 95, 115, 105, 103, 110, 97, 116,
                 117, 114, 101>>),
     semantic_binding |->
         PyStr(<<115, 101, 109, 97, 110, 116, 105, 99, 95, 98, 105, 110, 100, 105, 110, 103>>),
     encrypted_payload |->
         PyStr(<<101, 110, 99, 114, 121, 112, 116, 101, 100, 95, 112, 97, 121, 108, 111, 97,
                 100>>)]

AuthorizationToken(token_id, subject, timestamp, geometric_signature, semantic_binding, encrypted_payload) ==
    [token_id |-> token_id, subject |-> subject, timestamp |-> timestamp,
     geometric_signature |-> geometric_signature, semantic_binding |-> semantic_binding,
     encrypted_payload |-> encrypted_payload]

\* str fields are Python values here, since from_dict stores whatever the dict holds
to_dict(token) ==
    Dict(<< Item(Fields.token_id, token.token_id),
            Item(Fields.subject, token.subject),
            Item(Fields.timestamp, token.timestamp),
            Item(Fields.geometric_signature, PyStr(b64encode(token.geometric_signature))),
            Item(Fields.semantic_binding, PyStr(b64encode(token.semantic_binding))),
            Item(Fields.encrypted_payload, PyStr(b64encode(token.encrypted_payload))) >>)

NoToken ==
    AuthorizationToken(None, None, None, <<>>, <<>>, <<>>)

from_dict(data) ==
    LET \* b64decode of a value of the dict: of a str the decoded bytes, of anything else the
        \* TypeError the library raises (a str that is not ASCII: ValueError)
        DecodeField(v) ==
            IF v.raised # "" THEN [raised |-> v.raised, value |-> <<>>]
            ELSE IF v.value.t # "str" THEN [raised |-> "TypeError", value |-> <<>>]
            ELSE IF \E i \in 1..Len(v.value.s) : v.value.s[i] >= 128
                 THEN [raised |-> "ValueError", value |-> <<>>]
            ELSE b64decode(v.value.s)
    IN  LET token_id == GetItem(data, Fields.token_id)
            subject == GetItem(data, Fields.subject)
            timestamp == GetItem(data, Fields.timestamp)
            geometric_signature == DecodeField(GetItem(data, Fields.geometric_signature))
            semantic_binding == DecodeField(GetItem(data, Fields.semantic_binding))
            encrypted_payload == DecodeField(GetItem(data, Fields.encrypted_payload))
            all == <<token_id, subject, timestamp, geometric_signature, semantic_binding,
                     encrypted_payload>>
        IN  IF data.kind # "dict" THEN [raised |-> "TypeError", token |-> NoToken]
            ELSE IF \E i \in 1..6 : all[i].raised # ""
                 THEN [raised |-> all[CHOOSE i \in 1..6 :
                                         all[i].raised # "" /\ \A j \in 1..(i - 1) : all[j].raised = ""].raised,
                       token |-> NoToken]
            ELSE [raised |-> "",
                  token |-> AuthorizationToken(token_id.value, subject.value, timestamp.value,
                                               geometric_signature.value, semantic_binding.value,
                                               encrypted_payload.value)]

\* SpiralverseSystem(master_key): derive_key is called without a salt and draws salt
SpiralverseSystem(master_key, salt) ==
    Let(derive_key(master_key, {}, salt), LAMBDA derived_key :
        [master_key |-> master_key,
         derived_key |-> derived_key,
         hyperbolic |-> HyperbolicSpace(derived_key)])

\* _generate_token_id, with the clock's reading
_generate_token_id(sys, time) ==
    LET timestamp == encode(FloatRepr(time))
        random_component == Take(sha256(sys.derived_key \o timestamp), 8)
        HexUpper(d) == IF d < 10 THEN 48 + d ELSE 55 + d
        \* data.hex().upper()
        hex_upper(data) ==
            [j \in 1..(2 * Len(data)) |->
                IF j % 2 = 1 THEN HexUpper(data[(j + 1) \div 2] \div 16)
                ELSE HexUpper(data[j \div 2] % 16)]
    IN  PROTOCOL_ID \o <<45>> \o hex_upper(random_component)

\* a create_authorization that signs the subject under the geometric signature
\* instead of the semantic key
CreateBindsPayload(sys, subject, payload, passphrase, time1, time2, iv) ==
    Let(encode(dumps(payload)), LAMBDA payload_bytes :
    Let(compute_security_hash(sys.hyperbolic, encode(subject) \o payload_bytes),
        LAMBDA geometric_sig :
    Let(binding_derive_key(passphrase), LAMBDA semantic_key :
    Let(encrypt(payload_bytes,
                sha256(sys.derived_key \o semantic_key \o Take(geometric_sig, 16)), iv),
        LAMBDA encrypted :
        [chaos |-> encrypted.chaos,
         token |-> AuthorizationToken(PyStr(_generate_token_id(sys, time1)), PyStr(subject),
                                      time2, geometric_sig,
                                      Take(semantic_signature(subject, geometric_sig), 32),
                                      encrypted.out)]))))

\* create_authorization, with the clock's two readings and the IV encrypt draws
create_authorization(sys, subject, payload, passphrase, time1, time2, iv) ==
    Let(encode(dumps(payload)), LAMBDA payload_bytes :
    Let(compute_security_hash(sys.hyperbolic, encode(subject) \o payload_bytes),
        LAMBDA geometric_sig :
    Let(binding_derive_key(passphrase), LAMBDA semantic_key :
    Let(encrypt(payload_bytes,
                sha256(sys.derived_key \o semantic_key \o Take(geometric_sig, 16)), iv),
        LAMBDA encrypted :
        [chaos |-> encrypted.chaos,
         token |-> AuthorizationToken(PyStr(_generate_token_id(sys, time1)), PyStr(subject),
                                      time2, geometric_sig,
                                      Take(semantic_signature(subject, semantic_key), 32),
                                      encrypted.out)]))))

Rejected(chaos0, calls, why) ==
    [valid |-> FALSE, payload |-> Scalar(None), chaos |-> chaos0, calls |-> calls, why |-> why]

\* a try block that leaves out the check of the subject's trajectory
VerifyDecryptedUnchecked(sys, token, d, calls) ==
    IF d.raised # "" THEN Rejected(d.chaos, calls, d.raised)
    ELSE Let(decode(d.value), LAMBDA text :
         IF text.raised # "" THEN Rejected(d.chaos, Append(calls, "decode"), text.raised)
         ELSE Let(loads(text.text), LAMBDA payload :
              IF payload.raised # ""
              THEN Rejected(d.chaos, calls \o <<"decode", "loads">>, payload.raised)
              ELSE [valid |-> TRUE, payload |-> payload.value, chaos |-> d.chaos,
                    calls |-> calls \o <<"decode", "loads">>, why |-> ""]))

\* the try block of verify_authorization, from the bytes decrypt returned
VerifyDecrypted(sys, token, d, calls) ==
    IF d.raised # "" THEN Rejected(d.chaos, calls, d.raised)
    ELSE Let(decode(d.value), LAMBDA text :
         IF text.raised # "" THEN Rejected(d.chaos, Append(calls, "decode"), text.raised)
         ELSE Let(loads(text.text), LAMBDA payload :
              IF payload.raised # ""
              THEN Rejected(d.chaos, calls \o <<"decode", "loads">>, payload.raised)
              ELSE LET subject_point == encode_point(encode(token.subject.s))
                       trajectory == traverse_layers(sys.hyperbolic, subject_point)
                       done == calls \o <<"decode", "loads", "verify_trajectory_integrity">>
                   IN  IF ~verify_trajectory_integrity(sys.hyperbolic, trajectory)
                       THEN Rejected(d.chaos, done, "integrity")
                       ELSE [valid |-> TRUE, payload |-> payload.value, chaos |-> d.chaos,
                             calls |-> done, why |-> ""]))

\* a verify_authorization that derives the semantic key from the passphrase 'p1',
\* whichever passphrase it is given
VerifyIgnoresPassphrase(sys, chaos0, token, passphrase) ==
    LET semantic_key == binding_derive_key(<<112, 49>>)
        expected_sig == semantic_signature(token.subject.s, semantic_key)
        combined_key == sha256(sys.derived_key \o semantic_key \o Take(token.geometric_signature, 16))
        d == decrypt(token.encrypted_payload, combined_key)
    IN  IF Take(expected_sig, 32) # token.semantic_binding
        THEN Rejected(chaos0, <<"semantic_signature">>, "binding")
        ELSE VerifyDecrypted(sys, token, d, <<"semantic_signature", "combined_key", "decrypt">>)

\* a verify_authorization that decrypts before it compares the binding
VerifyDecryptFirst(sys, chaos0, token, passphrase) ==
    LET semantic_key == binding_derive_key(passphrase)
        expected_sig == semantic_signature(token.subject.s, semantic_key)
        combined_key == sha256(sys.derived_key \o semantic_key \o Take(token.geometric_signature, 16))
        d == decrypt(token.encrypted_payload, combined_key)
        calls == <<"semantic_signature", "combined_key", "decrypt">>
    IN  IF Take(expected_sig, 32) # token.semantic_binding
        THEN Rejected(d.chaos, calls, "binding")
        ELSE VerifyDecrypted(sys, token, d, calls)

\* a verify_authorization that hands the payload back when the trajectory fails
VerifyKeepsPayload(sys, chaos0, token, passphrase) ==
    LET semantic_key == binding_derive_key(passphrase)
        expected_sig == semantic_signature(token.subject.s, semantic_key)
        combined_key == sha256(sys.derived_key \o semantic_key \o Take(token.geometric_signature, 16))
        d == decrypt(token.encrypted_payload, combined_key)
        r == VerifyDecrypted(sys, token, d, <<"semantic_signature", "combined_key", "decrypt">>)
    IN  IF Take(expected_sig, 32) # token.semantic_binding
        THEN Rejected(chaos0, <<"semantic_signature">>, "binding")
        ELSE IF r.why = "integrity"
             THEN [r EXCEPT !.payload = loads(decode(d.value).text).value]
        ELSE r

\* a verify_authorization that recomputes the geometric signature from the subject and
\* the decrypted payload and rejects a token whose stored signature differs
VerifyComparesSignature(sys, chaos0, token, passphrase) ==
    LET semantic_key == binding_derive_key(passphrase)
        expected_sig == semantic_signature(token.subject.s, semantic_key)
        combined_key == sha256(sys.derived_key \o semantic_key \o Take(token.geometric_signature, 16))
        d == decrypt(token.encrypted_payload, combined_key)
        r == VerifyDecrypted(sys, token, d, <<"semantic_signature", "combined_key", "decrypt">>)
    IN  IF Take(expected_sig, 32) # token.semantic_binding
        THEN Rejected(chaos0, <<"semantic_signature">>, "binding")
        ELSE IF r.valid /\ compute_security_hash(sys.hyperbolic, encode(token.subject.s) \o d.value)
                              # token.geometric_signature
             THEN Rejected(d.chaos, r.calls, "signature")
        ELSE r

\* verify_authorization on a system whose cipher engine holds chaos0: the result, the
\* engine's chaos afterwards, the calls made in order, and why it was rejected
verify_authorization(sys, chaos0, token, passphrase) ==
    LET semantic_key == binding_derive_key(passphrase)
        expected_sig == semantic_signature(token.subject.s, semantic_key)
        combined_key == sha256(sys.derived_key \o semantic_key \o Take(token.geometric_signature, 16))
        d == decrypt(token.encrypted_payload, combined_key)
    IN  IF Take(expected_sig, 32) # token.semantic_binding
        THEN Rejected(chaos0, <<"semantic_signature">>, "binding")
        ELSE VerifyDecrypted(sys, token, d, <<"semantic_signature", "combined_key", "decrypt">>)

export_token(token) == b64encode(encode(dumps(to_dict(token))))

import_token(token_str) ==
    Let(b64decode(token_str), LAMBDA raw :
        IF raw.raised # "" THEN [raised |-> raw.raised, token |-> NoToken]
        ELSE Let(decode(raw.value), LAMBDA text :
             IF text.raised # "" THEN [raised |-> text.raised, token |-> NoToken]
             ELSE Let(loads(text.text), LAMBDA data :
                  IF data.raised # "" THEN [raised |-> data.raised, token |-> NoToken]
                  ELSE from_dict(data.value))))

(***************************************************************************)
(* ConsensusValidator(system, threshold).                                  *)
(***************************************************************************)
\* a validate_trajectory that leaves out the depth check
ValidateIntegrityOnly(sys, threshold, token) ==
    verify_trajectory_integrity(sys.hyperbolic,
        traverse_layers(sys.hyperbolic, encode_point(encode(token.subject.s))))

validate_trajectory(sys, threshold, token) ==
    Let(traverse_layers(sys.hyperbolic, encode_point(encode(token.subject.s))),
        LAMBDA trajectory :
            IF Len(trajectory) < threshold THEN FALSE
            ELSE verify_trajectory_integrity(sys.hyperbolic, trajectory))

\* a consensus hash that folds the tokens' bytes together with ^, in whatever order
ConsensusHashXor(list) ==
    LET fold[i \in 0..Len(list)] ==
            IF i = 0 THEN Fill(96, 0)
            ELSE XorBytes(fold[i - 1],
                          list[i].geometric_signature \o list[i].semantic_binding)
    IN  [combined |-> fold[Len(list)], digest |-> sha512(fold[Len(list)])]

\* compute_consensus_hash(tokens): the bytes hashed and the digest returned
compute_consensus_hash(list) ==
    Let(Flatten([i \in 1..Len(list) |->
                    list[i].geometric_signature \o list[i].semantic_binding], 1, Len(list)),
        LAMBDA combined : [combined |-> combined, digest |-> sha512(combined)])

(***************************************************************************)
(* Inputs of the cipher engine.                                            *)
(***************************************************************************)
\* keys derive_key produces, each with the password it is from: b'pw1' under two
\* salts a caller hands to derive_key, and b'pw2'
KeyRing ==
    { [password |-> <<112, 119, 49>>, key |-> derive_key(<<112, 119, 49>>, {s}, <<>>)] :
          s \in { Fill(16, 7), Fill(16, 9) } }
    \cup { [password |-> <<112, 119, 50>>, key |-> derive_key(<<112, 119, 50>>, {Fill(16, 7)}, <<>>)] }

\* plaintexts: runs of b'A' (empty, one byte, one short of a block, a block, and
\* beyond), and two that end like padding does
PlainTexts ==
    { Fill(n, 65) : n \in { 0, 1, block_size - 1, block_size } \cup ((block_size + 1)..MaxPlainLen) }
    \cup { Fill(block_size, block_size), Fill(3, 1) }

\* ciphertexts handed to decrypt, made from ciphertext c of plaintext p: c itself
\* (d = 0), c with its final byte changed so that the pad byte read is 0, is some
\* other length, or is beyond the data; the IV alone; nothing at all
FlipLast(c, d) == IF Len(c) = 0 THEN c ELSE [c EXCEPT ![Len(c)] = Xor(c[Len(c)], d)]

CipherTexts(c, p) ==
    { FlipLast(c, d) : d \in { 0, block_size - (Len(p) % block_size), 3, 240 } }
    \cup { Take(c, block_size), <<>> }

NoCall == [called |-> FALSE]

(***************************************************************************)
(* The engine under test: SCBEEngine(), then calls of encrypt on the       *)
(* plaintext and key drawn at the start and calls of decrypt.              *)
(***************************************************************************)
InitEngine ==
    /\ plain \in PlainTexts
    /\ ekey \in KeyRing
    /\ chaos = NoChaos
    /\ enc = NoCall
    /\ dec = NoCall
    /\ last = "init"
    /\ system = NoCall
    /\ req = NoCall
    /\ issued = NoCall
    /\ ver = NoCall
    /\ wire = NoCall
    /\ imp = NoCall
    /\ derived = NoCall
    /\ threads = NoCall
    /\ gem = NoCall
    /\ geo = NoCall
    /\ validator = NoCall
    /\ stream = NoCall
    /\ padcall = NoCall

Encrypt(iv) ==
    \E r \in { encrypt(plain, ekey.key, iv) } :
        /\ chaos' = r.chaos
        /\ enc' = [called |-> TRUE, plaintext |-> plain, key |-> ekey, iv |-> iv, out |-> r.out]
        /\ dec' = NoCall
        /\ last' = "encrypt"
        /\ UNCHANGED <<plain, ekey, system, req, issued, ver, wire, imp,
                     derived, threads, gem, geo, validator, stream, padcall>>

\* a decrypt that goes on with the generator the engine already holds
DecryptKeepsGenerator(c, k) ==
    \E r \in { DecryptBlocks(Drop(c, block_size), 1, Take(c, block_size), chaos) } :
        /\ chaos' = r.gen
        /\ dec' = [called |-> TRUE, ciphertext |-> c, key |-> k,
                   raised |-> _unpad(r.out).raised, value |-> _unpad(r.out).value]
        /\ last' = "decrypt"
        /\ UNCHANGED <<plain, ekey, enc, system, req, issued, ver, wire, imp,
                     derived, threads, gem, geo, validator, stream, padcall>>

Decrypt(c, k) ==
    \E r \in { decrypt(c, k.key) } :
        /\ chaos' = r.chaos
        /\ dec' = [called |-> TRUE, ciphertext |-> c, key |-> k,
                   raised |-> r.raised, value |-> r.value]
        /\ last' = "decrypt"
        /\ UNCHANGED <<plain, ekey, enc, system, req, issued, ver, wire, imp,
                     derived, threads, gem, geo, validator, stream, padcall>>

NextEngine ==
    \/ \E iv \in TokenBytes(block_size) : Encrypt(iv)
    \/ \E k \in KeyRing : enc.called /\ \E c \in CipherTexts(enc.out, plain) : Decrypt(c, k)

SpecEngine == InitEngine /\ [][NextEngine]_vars

(***************************************************************************)
(* Claims about the cipher engine, checked under SpecEngine.               *)
(***************************************************************************)
\* the last decrypt was handed the last ciphertext encrypted, unchanged
DecryptedLastCiphertext == enc.called /\ dec.called /\ dec.ciphertext = enc.out

\* the bytes the last decrypt had before it stripped the padding
DecryptedData ==
    LET k == dec.key.key
        gen == ChaosGenerator(SubSeq(k, Min(16, Len(k)) + 1, Min(48, Len(k))) \o Take(k, 16))
    IN  DecryptBlocks(Drop(dec.ciphertext, block_size), 1, Take(dec.ciphertext, block_size), gen).out

\* C3: decrypt(encrypt(p, k), k) = p for every key of derive_key and every plaintext,
\* the empty one and those of more than one block included.
C3_RoundTrip ==
    (DecryptedLastCiphertext /\ dec.key = enc.key)
        => (dec.raised = "" /\ dec.value = enc.plaintext)

C3_Witness ==
    /\ DecryptedLastCiphertext /\ dec.key = enc.key
    /\ Len(enc.plaintext) > block_size
    /\ dec.value = enc.plaintext

\* C7: decrypt fails with a padding error, returning no bytes, whenever the pad length
\* read from the final decrypted byte is 0 or exceeds the length of the decrypted data.
C7_PaddingError ==
    (dec.called /\ Len(DecryptedData) > 0
         /\ LET pad_len == DecryptedData[Len(DecryptedData)]
            IN  pad_len = 0 \/ pad_len > Len(DecryptedData))
        => dec.raised = "PaddingError"

\* C8: decrypting a ciphertext with a key derived from a different password than the
\* one it was encrypted with raises an exception.
C8_WrongKeyRaises ==
    (DecryptedLastCiphertext /\ dec.key.password # enc.key.password)
        => dec.raised # ""

\* C9: for different keys k1 # k2, decrypt(encrypt(p, k1), k2) fails or returns bytes
\* other than p; it never returns p.
C9_NeverPlaintext ==
    (DecryptedLastCiphertext /\ dec.key.key # enc.key.key)
        => (dec.raised # "" \/ dec.value # enc.plaintext)

\* C10: len(encrypt(p, k)) > len(p), and encrypt(p, k) # p for non-empty p: the
\* ciphertext carries the IV and at least one byte of padding.
C10_CiphertextLonger ==
    enc.called =>
        /\ Len(enc.out) > Len(enc.plaintext)
        /\ (Len(enc.plaintext) > 0 => enc.out # enc.plaintext)
        /\ Len(enc.out) >= Len(enc.plaintext) + block_size + 1
        /\ Take(enc.out, block_size) = enc.iv

C10_Witness == enc.called /\ Len(enc.plaintext) = block_size /\ Len(enc.out) = 3 * block_size

\* K_1 .. K_n: the blocks that n calls of generate_stream(block_size) draw, one after
\* the other, from the generator that encrypt and decrypt seed from key
RECURSIVE DrawBlocks(_, _)
DrawBlocks(gen, n) ==
    IF n = 0 THEN <<>>
    ELSE LET g == generate_stream(gen, block_size)
         IN  <<g.out>> \o DrawBlocks(g.gen, n - 1)

KeyBlocks(key, n) ==
    DrawBlocks(ChaosGenerator(SubSeq(key, Min(16, Len(key)) + 1, Min(48, Len(key))) \o Take(key, 16)), n)

\* block i of data, counted from 0
BlockAt(data, i) == SubSeq(data, i * block_size + 1, Min((i + 1) * block_size, Len(data)))

\* C22: encrypt returns IV, C_1 .. C_n with C_i = P_i XOR C_(i-1) XOR K_i, C_0 = IV, P_i
\* the i-th block of the padded plaintext and K_i the i-th block drawn from the
\* generator; decrypt recovers P_i = C_i XOR K_i XOR C_(i-1), chaining on the previous
\* ciphertext block, and strips the padding from these.
C22_Chaining ==
    /\ enc.called =>
           LET P == _pad(block_size, enc.plaintext).value
               n == Len(P) \div block_size
               K == KeyBlocks(enc.key.key, n)
           IN  /\ Len(enc.out) = (n + 1) * block_size
               /\ BlockAt(enc.out, 0) = enc.iv
               /\ \A i \in 1..n :
                      BlockAt(enc.out, i) =
                          XorBytes(XorBytes(BlockAt(P, i - 1), BlockAt(enc.out, i - 1)), K[i])
    /\ dec.called =>
           LET c == dec.ciphertext
               n == (Len(c) + block_size - 1) \div block_size - 1
               K == KeyBlocks(dec.key.key, n)
               D == Flatten([i \in 1..n |-> XorBytes(XorBytes(BlockAt(c, i), K[i]), BlockAt(c, i - 1))],
                            1, n)
           IN  /\ dec.raised = _unpad(D).raised
               /\ dec.value = _unpad(D).value

C22_Witness ==
    /\ enc.called /\ Len(enc.out) = 3 * block_size
    /\ BlockAt(enc.out, 1) # BlockAt(enc.out, 2)
    /\ dec.called /\ dec.ciphertext = enc.out /\ dec.key # enc.key
    /\ dec.raised = ""

\* the generator a call under key leaves in the engine when it starts from a new one,
\* seeded with key[16:48] + key[:16], and draws n blocks (four iterations a block)
SeededAndDrawn(key, n) ==
    LET seed == SubSeq(key, Min(16, Len(key)) + 1, Min(48, Len(key))) \o Take(key, 16)
    IN  [seed |-> seed,
         state |-> IterateTimes(_init_state(seed), ((block_size + 4) \div 5) * n)]

\* C29: an engine carries nothing from one call to the next: whatever encrypt and
\* decrypt calls, under whatever keys, came before, decrypt(c, k) returns what it
\* returns on a new engine, and after every call the engine holds the generator that
\* the call seeded from its own key and drew its own blocks from.
C29_NoCarriedState ==
    /\ last = "encrypt" =>
           chaos = SeededAndDrawn(enc.key.key, Len(enc.out) \div block_size - 1)
    /\ last = "decrypt" =>
           LET c == dec.ciphertext
               n == (Len(c) + block_size - 1) \div block_size - 1
               K == KeyBlocks(dec.key.key, n)
               onNew == _unpad(Flatten([i \in 1..n |->
                                           XorBytes(XorBytes(BlockAt(c, i), K[i]), BlockAt(c, i - 1))],
                                       1, n))
           IN  /\ chaos = SeededAndDrawn(dec.key.key, IF n < 0 THEN 0 ELSE n)
               /\ dec.raised = onNew.raised
               /\ dec.value = onNew.value

\* a decrypt under another key than the encrypt before it, on an engine that held that
\* call's generator
C29_Witness ==
    /\ enc.called /\ dec.called /\ last = "decrypt"
    /\ dec.key.key # enc.key.key
    /\ Len(dec.ciphertext) = 3 * block_size
    /\ dec.raised = ""
    /\ chaos.seed # SeededAndDrawn(enc.key.key, 0).seed

(***************************************************************************)
(* One engine on which encrypt is called again and again under the key     *)
(* drawn at the start, with any plaintext; each call is kept together with *)
(* the call made before it.                                                *)
(***************************************************************************)
EncryptNext(p, iv) ==
    \E r \in { encrypt(p, ekey.key, iv) } :
        /\ chaos' = r.chaos
        /\ enc' = [called |-> TRUE, plaintext |-> p, key |-> ekey, iv |-> iv, out |-> r.out,
                   before |-> IF enc.called
                              THEN [called |-> TRUE, plaintext |-> enc.plaintext,
                                    iv |-> enc.iv, out |-> enc.out]
                              ELSE NoCall]
        /\ plain' = p
        /\ dec' = NoCall
        /\ last' = "encrypt"
        /\ UNCHANGED <<ekey, system, req, issued, ver, wire, imp,
                       derived, threads, gem, geo, validator, stream, padcall>>

NextKeystream == \E p \in PlainTexts : \E iv \in TokenBytes(block_size) : EncryptNext(p, iv)

SpecKeystream == InitEngine /\ [][NextKeystream]_vars

\* C28: the keystream of encrypt depends on the key only, not on the IV or the
\* plaintext: for two encrypt calls under one key and every block index i present in
\* both ciphertexts, C_i XOR C_(i-1) XOR C'_i XOR C'_(i-1) = P_i XOR P'_i, with C_0 and
\* C'_0 the two IVs and P, P' the padded plaintexts.
C28_KeystreamOfKey ==
    (enc.called /\ enc.before.called) =>
        LET P == _pad(block_size, enc.plaintext).value
            Q == _pad(block_size, enc.before.plaintext).value
            C == enc.out
            D == enc.before.out
            n == Min(Len(C), Len(D)) \div block_size - 1
        IN  \A i \in 1..n :
                XorBytes(XorBytes(BlockAt(C, i), BlockAt(C, i - 1)),
                         XorBytes(BlockAt(D, i), BlockAt(D, i - 1)))
                    = XorBytes(BlockAt(P, i - 1), BlockAt(Q, i - 1))

\* two calls of two blocks each, with different IVs and different plaintexts
C28_Witness ==
    /\ enc.called /\ enc.before.called
    /\ enc.iv # enc.before.iv
    /\ Len(enc.plaintext) # Len(enc.before.plaintext)
    /\ Len(enc.out) = 3 * block_size /\ Len(enc.before.out) = 3 * block_size
    /\ BlockAt(enc.out, 2) # BlockAt(enc.before.out, 2)

(***************************************************************************)
(* Padding: SCBEEngine(SCBEConfig(block_size=B)), then calls of _pad.      *)
(***************************************************************************)
\* block sizes configured: small ones, the default, and those around the largest byte
InitPad ==
    /\ padcall \in { [called |-> FALSE, block_size |-> b] :
                         b \in (1..8) \cup {block_size, 255, 256, 300} }
    /\ chaos = NoChaos
    /\ enc = NoCall
    /\ dec = NoCall
    /\ last = "init"
    /\ plain = <<>>
    /\ ekey = NoCall
    /\ system = NoCall
    /\ req = NoCall
    /\ issued = NoCall
    /\ ver = NoCall
    /\ wire = NoCall
    /\ imp = NoCall
    /\ derived = NoCall
    /\ threads = NoCall
    /\ gem = NoCall
    /\ geo = NoCall
    /\ validator = NoCall
    /\ stream = NoCall

Pad(data) ==
    /\ \E r \in { _pad(padcall.block_size, data) } :
           padcall' = [called |-> TRUE, block_size |-> padcall.block_size, data |-> data,
                       raised |-> r.raised, value |-> r.value]
    /\ UNCHANGED <<chaos, enc, dec, last, plain, ekey, system, req, issued, ver, wire, imp,
                   derived, threads, gem, geo, validator, stream>>

\* data: runs of b'A' of 0..MaxPadLen bytes and of the lengths around one and two blocks
NextPad ==
    \E n \in (0..MaxPadLen) \cup { padcall.block_size + d : d \in {0 - 1, 0, 1} }
                \cup { 2 * padcall.block_size + d : d \in {0 - 1, 0} } :
        Pad(Fill(n, 65))

SpecPad == InitPad /\ [][NextPad]_vars

\* the padding _pad returned is pad_len = B - (L mod B) bytes, each equal to pad_len,
\* after the data; pad_len is in 1..B and the padded length is a positive multiple of B
PaddedAsPKCS7 ==
    LET B == padcall.block_size
        L == Len(padcall.data)
        pad_len == B - (L % B)
    IN  /\ padcall.raised = ""
        /\ pad_len \in 1..B
        /\ Len(padcall.value) = L + pad_len
        /\ \A i \in 1..L : padcall.value[i] = padcall.data[i]
        /\ \A i \in (L + 1)..(L + pad_len) : padcall.value[i] = pad_len
        /\ Len(padcall.value) > 0 /\ Len(padcall.value) % B = 0

\* C23 as claimed: for every input of length L and every block size B, _pad appends
\* pad_len = B - (L mod B) bytes, each equal to pad_len, with pad_len in [1, B], and
\* the padded length is a positive multiple of B.
C23_PadEveryBlockSize == padcall.called => PaddedAsPKCS7

\* C23 amended: the same for every block size B of 1..255; for a larger B, _pad does so
\* when pad_len <= 255 and raises ValueError, returning nothing, when pad_len > 255.
C23_PadByteBlockSizes ==
    padcall.called =>
        IF padcall.block_size - (Len(padcall.data) % padcall.block_size) <= 255
        THEN PaddedAsPKCS7
        ELSE padcall.block_size > 255 /\ padcall.raised = "ValueError" /\ padcall.value = <<>>

\* a full block of padding on data that fills its blocks, and on no data at all
C23_Witness ==
    /\ padcall.called /\ padcall.raised = ""
    /\ padcall.block_size \in {3, block_size, 255}
    /\ Len(padcall.data) \in {0, padcall.block_size}
    /\ Len(padcall.value) = Len(padcall.data) + padcall.block_size

(***************************************************************************)
(* A generator of its own: ChaosGenerator(seed), then up to two calls of   *)
(* generate_stream.  start is the generator as constructed.                *)
(***************************************************************************)
InitStream ==
    /\ stream \in { [start |-> ChaosGenerator(seed), gen |-> ChaosGenerator(seed), calls |-> <<>>] :
                        seed \in { <<115, 49>>, <<115, 50>> } }
    /\ chaos = NoChaos
    /\ enc = NoCall
    /\ dec = NoCall
    /\ last = "init"
    /\ plain = <<>>
    /\ ekey = NoCall
    /\ system = NoCall
    /\ req = NoCall
    /\ issued = NoCall
    /\ ver = NoCall
    /\ wire = NoCall
    /\ imp = NoCall
    /\ derived = NoCall
    /\ threads = NoCall
    /\ gem = NoCall
    /\ geo = NoCall
    /\ validator = NoCall
    /\ padcall = NoCall

GenerateStream(length) ==
    /\ Len(stream.calls) < 2
    /\ \E r \in { generate_stream(stream.gen, length) } :
           stream' = [stream EXCEPT !.gen = r.gen,
                                    !.calls = Append(@, [length |-> length, out |-> r.out])]
    /\ UNCHANGED <<chaos, enc, dec, last, plain, ekey, system, req, issued, ver, wire, imp,
                   derived, threads, gem, geo, validator, padcall>>

NextStream == \E length \in 0..MaxStreamLen : GenerateStream(length)

SpecStream == InitStream /\ [][NextStream]_vars

\* the iterations n bytes take: ceil(n / 5)
IterationsFor(n) == (n + 4) \div 5

\* byte j, counted from 1, of the bytes that iterations t + 1, t + 2, .. of the
\* generator as constructed yield, five each: int(val * 256) % 256 of the axes in turn
ByteAfter(t, j) ==
    LET state == IterateTimes(stream.start.state, t + ((j - 1) \div 5) + 1)
    IN  ((state[((j - 1) % 5) + 1] * 256) \div ChaosScale) % ByteMod

InitKeys ==
    /\ derived = <<>>
    /\ chaos = NoChaos
    /\ enc = NoCall
    /\ dec = NoCall
    /\ last = "init"
    /\ plain = <<>>
    /\ ekey = NoCall
    /\ system = NoCall
    /\ req = NoCall
    /\ issued = NoCall
    /\ ver = NoCall
    /\ wire = NoCall
    /\ imp = NoCall
    /\ threads = NoCall
    /\ gem = NoCall
    /\ geo = NoCall
    /\ validator = NoCall
    /\ stream = NoCall
    /\ padcall = NoCall

DeriveKey(password, salt, drawn) ==
    \E key \in { derive_key(password, salt, drawn) } :
        /\ derived' = (IF derived = <<>> THEN <<>> ELSE <<derived[Len(derived)]>>)
                           \o <<[password |-> password, salt |-> salt, key |-> key]>>
        /\ UNCHANGED <<chaos, enc, dec, last, plain, ekey, system, req, issued, ver, wire, imp,
                       threads, gem, geo, validator, stream, padcall>>

\* b'pw1', b'pw2' and b'' as passwords; no salt, or one of two salts of 16 bytes
NextKeys ==
    \E password \in { <<112, 119, 49>>, <<112, 119, 50>>, <<>> } :
        \E salt \in { {}, {Fill(16, 7)}, {Fill(16, 9)} } :
            \E drawn \in TokenBytes(16) : DeriveKey(password, salt, drawn)

SpecKeys == InitKeys /\ [][NextKeys]_vars

\* C11: two derive_key calls with the same password and the same explicitly supplied
\* salt return identical output.
C11_SameSaltSameKey ==
    \A i, j \in 1..Len(derived) :
        (derived[i].password = derived[j].password /\ derived[i].salt = derived[j].salt
             /\ derived[i].salt # {})
            => derived[i].key = derived[j].key

C11_Witness ==
    /\ Len(derived) = 2
    /\ derived[1].password = derived[2].password
    /\ derived[1].salt = {Fill(16, 9)} /\ derived[2].salt = {Fill(16, 9)}
    /\ derived[1].key = derived[2].key
    /\ Take(derived[2].key, 16) = Fill(16, 9)

\* C12: derive_key(password) called twice with the same password and no salt argument
\* returns two equal keys, each exactly 32 bytes long.
C12_NoSaltEqualKeys ==
    \A i, j \in 1..Len(derived) :
        (i < j /\ derived[i].password = derived[j].password
             /\ derived[i].salt = {} /\ derived[j].salt = {})
            => /\ derived[i].key = derived[j].key
               /\ Len(derived[i].key) = 32 /\ Len(derived[j].key) = 32

(***************************************************************************)
(* Inputs of the authorization protocol.                                   *)
(***************************************************************************)
\* the systems SpiralverseSystem(b'mk1') can be, by the salt derive_key draws
Systems == { SpiralverseSystem(<<109, 107, 49>>, salt) : salt \in TokenBytes(16) }

\* 'u1' and 'ec' with {"a": 1}; 'ec' with an int key, with a payload whose padding is
\* whitespace, and with no items; a subject and payload that json has to escape
Requests ==
    LET Request(subject, payload, passphrase) ==
            [subject |-> subject, payload |-> payload, passphrase |-> passphrase]
    IN
    { Request(<<117, 49>>, Dict(<<Item(PyStr(<<97>>), PyInt(1))>>), <<112, 49>>),
      Request(<<101, 99>>, Dict(<<Item(PyStr(<<97>>), PyInt(1))>>), <<112, 49>>),
      Request(<<101, 99>>, Dict(<<Item(PyInt(1), PyStr(<<120>>))>>), <<112, 50>>),
      Request(<<101, 99>>, Dict(<<Item(PyStr(<<>>), PyInt(1))>>), <<112, 49>>),
      Request(<<101, 99>>, Dict(<<>>), <<112, 50>>),
      Request(<<233, 34>>, Dict(<<Item(PyStr(<<107>>), PyStr(<<233, 92>>))>>), <<112, 50>>) }

Passphrases == { <<112, 49>>, <<112, 50>> }                 \* 'p1', 'p2'

\* the clock's first reading
Time0 == PyFloat(1700000000, 1)

\* tokens handed to verify_authorization, made from token t whose payload has n bytes:
\* t itself (d = 0); t with the final byte of its ciphertext changed so that the pad
\* byte read is 0, or is another length; t without ciphertext; t with another
\* binding; t with another geometric signature
TokenVariants(t, n) ==
    { [t EXCEPT !.encrypted_payload = FlipLast(@, d)] : d \in {0, block_size - (n % block_size), 10} }
    \cup { [t EXCEPT !.encrypted_payload = <<>>],
           [t EXCEPT !.semantic_binding = FlipLast(@, 1)],
           [t EXCEPT !.geometric_signature = [@ EXCEPT ![1] = Xor(@, 1)]] }

\* strings handed to import_token, made from the exported string s: s itself, s cut
\* short, and s with its first character replaced
WireStrings(s) == { s, Take(s, Len(s) - 1), [s EXCEPT ![1] = 65] }

(***************************************************************************)
(* The protocol: SpiralverseSystem(master_key), then calls of              *)
(* create_authorization on the request drawn at the start, and calls of    *)
(* verify_authorization, export_token and import_token.                    *)
(***************************************************************************)
InitAuth ==
    /\ system \in Systems
    /\ req \in Requests
    /\ chaos = NoChaos
    /\ issued = NoCall
    /\ ver = NoCall
    /\ wire = NoCall
    /\ imp = NoCall
    /\ enc = NoCall
    /\ dec = NoCall
    /\ last = "init"
    /\ plain = <<>>
    /\ ekey = NoCall
    /\ derived = NoCall
    /\ threads = NoCall
    /\ gem = NoCall
    /\ geo = NoCall
    /\ validator = NoCall
    /\ stream = NoCall
    /\ padcall = NoCall

\* a create_authorization that derives the system's key anew, with the salt drawn
CreateRederivesKey(time1, time2, iv) ==
    \E r \in { create_authorization(system, req.subject, req.payload, req.passphrase,
                                    time1, time2, iv) } :
        /\ chaos' = r.chaos
        /\ issued' = [called |-> TRUE, token |-> r.token]
        /\ ver' = NoCall
        /\ wire' = NoCall
        /\ imp' = NoCall
        /\ system' = SpiralverseSystem(system.master_key, iv)
        /\ UNCHANGED <<enc, dec, last, plain, ekey, req,
                     derived, threads, gem, geo, validator, stream, padcall>>

CreateAuthorization(time1, time2, iv) ==
    \E r \in { create_authorization(system, req.subject, req.payload, req.passphrase,
                                    time1, time2, iv) } :
        /\ chaos' = r.chaos
        /\ issued' = [called |-> TRUE, token |-> r.token]
        /\ ver' = NoCall
        /\ wire' = NoCall
        /\ imp' = NoCall
        /\ UNCHANGED <<enc, dec, last, plain, ekey, system, req,
                     derived, threads, gem, geo, validator, stream, padcall>>

VerifyAuthorization(token, passphrase) ==
    \E r \in { verify_authorization(system, chaos, token, passphrase) } :
        /\ chaos' = r.chaos
        /\ ver' = [called |-> TRUE, token |-> token, passphrase |-> passphrase,
                   valid |-> r.valid, payload |-> r.payload, calls |-> r.calls,
                   why |-> r.why, untouched |-> r.chaos = chaos]
        /\ UNCHANGED <<enc, dec, last, plain, ekey, system, req, issued, wire, imp,
                     derived, threads, gem, geo, validator, stream, padcall>>

ExportToken ==
    /\ wire' = [called |-> TRUE, token |-> issued.token, out |-> export_token(issued.token)]
    /\ imp' = NoCall
    /\ UNCHANGED <<chaos, enc, dec, last, plain, ekey, system, req, issued, ver,
                     derived, threads, gem, geo, validator, stream, padcall>>

ImportToken(token_str) ==
    \E r \in { import_token(token_str) } :
        /\ imp' = [called |-> TRUE, token_str |-> token_str, raised |-> r.raised,
                   token |-> r.token]
        /\ UNCHANGED <<chaos, enc, dec, last, plain, ekey, system, req, issued, ver, wire,
                     derived, threads, gem, geo, validator, stream, padcall>>

NextAuth ==
    \/ \E iv \in TokenBytes(block_size) : CreateAuthorization(Time0, Time0, iv)
    \/ \E passphrase \in Passphrases :
         issued.called
         /\ \E token \in TokenVariants(issued.token, Len(encode(dumps(req.payload)))) :
             VerifyAuthorization(token, passphrase)

SpecAuth == InitAuth /\ [][NextAuth]_vars

NextToken ==
    \/ \E iv \in TokenBytes(block_size) : \E t \in { Time0, PyFloat(1700000000, 2) } : CreateAuthorization(Time0, t, iv)
    \/ issued.called /\ ExportToken
    \/ wire.called /\ \E s \in WireStrings(wire.out) : ImportToken(s)

SpecToken == InitAuth /\ [][NextToken]_vars

(***************************************************************************)
(* Claims about the authorization protocol, checked under SpecAuth and     *)
(* SpecToken.                                                              *)
(***************************************************************************)
\* the last verify_authorization was handed the token create_authorization returned
VerifiedIssued == issued.called /\ ver.called /\ ver.token = issued.token

\* the binding of the last verified token is the one its subject has under the
\* passphrase verify was given
BindingMatches ==
    Take(semantic_signature(ver.token.subject.s, binding_derive_key(ver.passphrase)), 32)
        = ver.token.semantic_binding

\* what the last verified token's ciphertext decrypts and parses to under the
\* passphrase verify was given
VerifiedParse ==
    LET d == decrypt(ver.token.encrypted_payload,
                     sha256(system.derived_key \o binding_derive_key(ver.passphrase)
                                \o Take(ver.token.geometric_signature, 16)))
        text == decode(d.value)
    IN  IF d.raised # "" THEN [raised |-> d.raised, value |-> Scalar(None)]
        ELSE IF text.raised # "" THEN [raised |-> text.raised, value |-> Scalar(None)]
        ELSE loads(text.text)

\* the trajectory of the last verified token's subject passes the integrity check
SubjectIntegrity ==
    verify_trajectory_integrity(system.hyperbolic,
        traverse_layers(system.hyperbolic, encode_point(encode(ver.token.subject.s))))

\* C1: verify_authorization(create_authorization(subject, payload, passphrase),
\* passphrase) on the same system returns (True, payload), with the payload equal to
\* the one passed to create.
C1_VerifyCreated ==
    (VerifiedIssued /\ ver.passphrase = req.passphrase)
        => (ver.valid /\ PyEq(ver.payload, req.payload))

\* C2: for a token created with passphrase P and any passphrase W # P,
\* verify_authorization(token, W) returns (False, None).
C2_WrongPassphrase ==
    (VerifiedIssued /\ ver.passphrase # req.passphrase)
        => (~ver.valid /\ ver.payload = Scalar(None))

C2_Witness ==
    /\ VerifiedIssued /\ ver.passphrase # req.passphrase
    /\ ~ver.valid /\ ver.why = "binding"
    /\ req.subject = <<101, 99>>

\* C5: whenever the recomputed binding's first 32 bytes differ from the token's
\* semantic_binding, verify returns (False, None) without computing the combined key
\* and without calling the cipher's decrypt, whose generator stays as it was.
C5_BindingFirst ==
    (ver.called /\ ~BindingMatches)
        => /\ ~ver.valid /\ ver.payload = Scalar(None)
           /\ ver.untouched
           /\ \A i \in 1..Len(ver.calls) : ver.calls[i] \notin {"combined_key", "decrypt"}

C5_Witness ==
    /\ ver.called /\ ~BindingMatches
    /\ ver.token.semantic_binding # issued.token.semantic_binding
    /\ ver.passphrase = req.passphrase
    /\ ver.calls = <<"semantic_signature">>
    /\ chaos # NoChaos

\* C6: verify_authorization returns either (False, None) or (True, payload), and
\* (True, payload) exactly when the binding matched, decrypt returned bytes that
\* decode and parse, and the subject's trajectory passed the integrity check; the
\* payload is then the parsed one.  Any failure gives (False, None).
C6_VerifyResult ==
    ver.called =>
        /\ (~ver.valid => ver.payload = Scalar(None))
        /\ ver.valid = (BindingMatches /\ VerifiedParse.raised = "" /\ SubjectIntegrity)
        /\ (ver.valid => ver.payload = VerifiedParse.value)
        /\ ver.why # "unsupported"

C6_Witness ==
    /\ VerifiedIssued /\ ver.passphrase = req.passphrase
    /\ ver.valid /\ PyEq(ver.payload, req.payload)
    /\ ver.calls[Len(ver.calls)] = "verify_trajectory_integrity"

\* C27: the trajectory check inside verify_authorization is a function of the token's
\* subject and the instance's derived key only: when the subject's trajectory fails
\* integrity, verify returns (False, None) for every token with that subject, whatever
\* its payload and even for the token create_authorization issued, under the right
\* passphrase, which is then rejected by that check and by nothing before it.
C27_SubjectDecides ==
    (ver.called /\ ~SubjectIntegrity) =>
        /\ ~ver.valid /\ ver.payload = Scalar(None)
        /\ (VerifiedIssued /\ ver.passphrase = req.passphrase) =>
               /\ ver.why = "integrity"
               /\ ver.calls[Len(ver.calls)] = "verify_trajectory_integrity"

C27_Witness ==
    /\ VerifiedIssued /\ ver.passphrase = req.passphrase
    /\ ~SubjectIntegrity
    /\ ~ver.valid /\ ver.why = "integrity"
    /\ Len(req.payload.items) > 0

\* C4: import_token(export_token(t)) equals t field for field: token_id, subject,
\* timestamp, geometric_signature, semantic_binding and encrypted_payload.
C4_ImportExport ==
    (wire.called /\ imp.called /\ imp.token_str = wire.out)
        => /\ imp.raised = ""
           /\ imp.token.token_id = wire.token.token_id
           /\ imp.token.subject = wire.token.subject
           /\ imp.token.timestamp = wire.token.timestamp
           /\ imp.token.geometric_signature = wire.token.geometric_signature
           /\ imp.token.semantic_binding = wire.token.semantic_binding
           /\ imp.token.encrypted_payload = wire.token.encrypted_payload

C4_Witness ==
    /\ wire.called /\ imp.called /\ imp.token_str = wire.out
    /\ imp.token = wire.token
    /\ wire.token.subject = PyStr(<<233, 34>>)
    /\ wire.token.timestamp # Time0

(***************************************************************************)
(* The geometry: HyperbolicSpace(derived_key) of a system, then calls of   *)
(* encode_point, traverse_layers, verify_trajectory_integrity and of a     *)
(* layer transform's apply.                                                *)
(***************************************************************************)
InitGeometry ==
    /\ system \in Systems
    /\ geo = NoCall
    /\ chaos = NoChaos
    /\ enc = NoCall
    /\ dec = NoCall
    /\ last = "init"
    /\ plain = <<>>
    /\ ekey = NoCall
    /\ req = NoCall
    /\ issued = NoCall
    /\ ver = NoCall
    /\ wire = NoCall
    /\ imp = NoCall
    /\ derived = NoCall
    /\ threads = NoCall
    /\ gem = NoCall
    /\ validator = NoCall
    /\ stream = NoCall
    /\ padcall = NoCall

EncodePoint(data) ==
    /\ geo' = [called |-> TRUE, op |-> "encode_point", encoded |-> TRUE, data |-> data,
               point |-> encode_point(data), trajectory |-> <<>>, ok |-> FALSE,
               layer |-> 0, z |-> Complex(0, 0), out |-> Complex(0, 0)]
    /\ UNCHANGED <<chaos, enc, dec, last, plain, ekey, system, req, issued, ver, wire, imp,
                   derived, threads, gem, validator, stream, padcall>>

\* traverse_layers(point), for the point encode_point returned or one made by hand
TraverseLayers(point, encoded) ==
    /\ geo' = [called |-> TRUE, op |-> "traverse_layers", encoded |-> encoded,
               data |-> IF encoded THEN geo.data ELSE <<>>, point |-> point,
               trajectory |-> traverse_layers(system.hyperbolic, point), ok |-> FALSE,
               layer |-> 0, z |-> Complex(0, 0), out |-> Complex(0, 0)]
    /\ UNCHANGED <<chaos, enc, dec, last, plain, ekey, system, req, issued, ver, wire, imp,
                   derived, threads, gem, validator, stream, padcall>>

VerifyTrajectoryIntegrity ==
    /\ geo.called /\ geo.op = "traverse_layers"
    /\ geo' = [geo EXCEPT !.op = "verify_trajectory_integrity",
                          !.ok = verify_trajectory_integrity(system.hyperbolic, geo.trajectory)]
    /\ UNCHANGED <<chaos, enc, dec, last, plain, ekey, system, req, issued, ver, wire, imp,
                   derived, threads, gem, validator, stream, padcall>>

\* verify_trajectory_integrity(trajectory) for a list of points the caller made
VerifyGiven(trajectory) ==
    /\ geo' = [called |-> TRUE, op |-> "verify_given", encoded |-> FALSE, data |-> <<>>,
               point |-> HyperbolicPoint(Complex(0, 0)), trajectory |-> trajectory,
               ok |-> verify_trajectory_integrity(system.hyperbolic, trajectory),
               layer |-> 0, z |-> Complex(0, 0), out |-> Complex(0, 0)]
    /\ UNCHANGED <<chaos, enc, dec, last, plain, ekey, system, req, issued, ver, wire, imp,
                   derived, threads, gem, validator, stream, padcall>>

\* fourteen points on the real axis: the first has radius 0.2 and the radius changes
\* by step thousandths at each of the positions from..to (it falls for step > 0)
OnAxis(step, from, to) ==
    [i \in 1..(Layers + 1) |->
        HyperbolicPoint(Complex(200 - step * Max(0, Min(i, to) - from + 1), 0))]

\* layer_transforms[layer - 1].apply(z)
Apply(layer, z) ==
    /\ geo' = [called |-> TRUE, op |-> "apply", encoded |-> FALSE, data |-> <<>>,
               point |-> HyperbolicPoint(Complex(0, 0)), trajectory |-> <<>>, ok |-> FALSE,
               layer |-> layer, z |-> z, out |-> apply(system.hyperbolic.layer_transforms[layer], z)]
    /\ UNCHANGED <<chaos, enc, dec, last, plain, ekey, system, req, issued, ver, wire, imp,
                   derived, threads, gem, validator, stream, padcall>>

\* data: b'' and b'eJ' .. b'ec'; points made by hand: HyperbolicPoint(3+4j) and the
\* origin; lists made by hand: radii rising by 0.002 or falling by 0.004 or 0.005 a
\* step over runs of 1, 2 and 6 positions, and a NaN point early, midway and last; inputs of
\* apply: the origin, points inside, on and outside the circle
NextGeometry ==
    \/ \E data \in { <<>> } \cup { <<101, b>> : b \in 74..99 } : EncodePoint(data)
    \/ geo.called /\ geo.op = "encode_point" /\ TraverseLayers(geo.point, TRUE)
    \/ \E z \in { Complex(3 * GeoScale, 4 * GeoScale), Complex(0, 0) } :
           TraverseLayers(HyperbolicPoint(z), FALSE)
    \/ VerifyTrajectoryIntegrity
    \/ \E step \in {0 - 2, 4, 5} : \E from \in {2, 9, 13} : \E more \in {0, 5} :
           VerifyGiven(OnAxis(step, from, Min(from + more, Layers + 1)))
    \/ \E k \in {1, 7, Layers + 1} :
           VerifyGiven([OnAxis(4, 2, 7) EXCEPT ![k] = HyperbolicPoint(CNaN)])
    \/ \E layer \in 1..Layers :
           \E z \in { Complex(0, 0), Complex(GeoScale \div 2, 0 - (GeoScale \div 2)),
                      Complex(0 - 300, 900), Complex(GeoScale, 0),
                      Complex(3 * GeoScale, 4 * GeoScale) } : Apply(layer, z)

SpecGeometry == InitGeometry /\ [][NextGeometry]_vars

\* C13: for every master key and every input x,
\* verify_trajectory_integrity(traverse_layers(encode_point(x))) returns true.
C13_TrajectoryVerifies ==
    (geo.called /\ geo.op = "verify_trajectory_integrity" /\ geo.encoded) => geo.ok

\* C14: traverse_layers returns exactly 14 points: the starting point, then one point
\* per layer for exactly 13 layer transforms, each the layer's transform applied to
\* the curvature-scaled point before it, in layer order.
C14_FourteenPoints ==
    (geo.called /\ geo.op \in {"traverse_layers", "verify_trajectory_integrity"}) =>
        /\ Len(system.hyperbolic.layer_transforms) = 13
        /\ Len(geo.trajectory) = 14
        /\ geo.trajectory[1] = geo.point
        /\ \A i \in 1..13 :
               geo.trajectory[i + 1] =
                   HyperbolicPoint(apply(system.hyperbolic.layer_transforms[i],
                                         CScale(geo.trajectory[i].z, CurvatureScale[i], 100000)))

C14_Witness ==
    /\ geo.called /\ geo.op = "traverse_layers" /\ geo.encoded
    /\ Len(geo.trajectory) = 14
    /\ ~HasNaN(geo.trajectory[14].z)
    /\ geo.trajectory[14] # geo.trajectory[13]

\* the distances from the origin of the points of the trajectory last verified
Distances == [i \in 1..Len(geo.trajectory) |->
                 hyperbolic_distance(Complex(0, 0), geo.trajectory[i].z)]

\* distance b is below distance a by more than the tolerance 0.01
FallsBelow(a, b) == ~IsNaN(a) /\ ~IsNaN(b) /\ a - b > 100

\* C21 as claimed: verify_trajectory_integrity rejects a 14-point trajectory whenever
\* any earlier point is farther from the origin than any later point by more than the
\* tolerance 0.01, not only when two adjacent points are.
C21_AnyEarlierFarther ==
    (geo.called /\ geo.op \in {"verify_given", "verify_trajectory_integrity"}
                /\ Len(geo.trajectory) = 14) =>
        ((\E i \in 1..14 : \E j \in (i + 1)..14 : FallsBelow(Distances[i], Distances[j]))
            => ~geo.ok)

\* C21 amended: verify_trajectory_integrity rejects a 14-point trajectory exactly when
\* some point is nearer to the origin than the point just before it by more than the
\* tolerance 0.01; falls of less at consecutive steps are accepted however far they add up.
C21_AdjacentFall ==
    (geo.called /\ geo.op \in {"verify_given", "verify_trajectory_integrity"}
                /\ Len(geo.trajectory) = 14) =>
        (geo.ok <=> ~\E i \in 1..13 : FallsBelow(Distances[i], Distances[i + 1]))

\* a trajectory whose distance falls by less than 0.01 at each of six steps is accepted
C21_Witness ==
    /\ geo.called /\ geo.op = "verify_given" /\ geo.ok
    /\ Len(geo.trajectory) = 14
    /\ FallsBelow(Distances[1], Distances[7])
    /\ \A i \in 1..6 : Distances[i] - Distances[i + 1] \in 60..100

\* C15: every disk point the geometry produces has magnitude strictly less than 1:
\* the result of apply, the point of encode_point, and every point of a trajectory.
C15_InsideDisk ==
    LET InsideDisk(z) == ~HasNaN(z) /\ Norm2(z) < GeoScale * GeoScale
    IN  geo.called =>
            /\ (geo.op = "apply" => InsideDisk(geo.out))
            /\ InsideDisk(geo.point.z)
            /\ \A i \in 1..Len(geo.trajectory) : InsideDisk(geo.trajectory[i].z)

(***************************************************************************)
(* Two callers inside encrypt or decrypt of one SCBEEngine.  A step is the *)
(* assignment of self._chaos with the locals set up after it (lines 94-105 *)
(* and 125-134), or one pass of the block loop, which reads self._chaos    *)
(* (lines 107-115 and 136-144); the return follows the last pass and       *)
(* touches nothing shared.  Each caller makes one call.                    *)
(***************************************************************************)
InitThreads ==
    /\ threads = [t \in {1, 2} |-> [pc |-> "idle"]]
    /\ chaos = NoChaos
    /\ enc = NoCall
    /\ dec = NoCall
    /\ last = "init"
    /\ plain = <<>>
    /\ ekey = NoCall
    /\ system = NoCall
    /\ req = NoCall
    /\ issued = NoCall
    /\ ver = NoCall
    /\ wire = NoCall
    /\ imp = NoCall
    /\ derived = NoCall
    /\ gem = NoCall
    /\ geo = NoCall
    /\ validator = NoCall
    /\ stream = NoCall
    /\ padcall = NoCall

\* caller t enters encrypt(data, key), drawing iv, or decrypt(data, key)
Call(t, op, data, key, iv) ==
    /\ threads[t].pc = "idle"
    /\ chaos' = ChaosGenerator(SubSeq(key, Min(16, Len(key)) + 1, Min(48, Len(key))) \o Take(key, 16))
    /\ threads' = [threads EXCEPT ![t] =
           [pc |-> "loop", op |-> op, data |-> data, key |-> key,
            iv |-> IF op = "encrypt" THEN iv ELSE Take(data, block_size),
            blocks |-> IF op = "encrypt" THEN _pad(block_size, data).value ELSE Drop(data, block_size),
            i |-> 1,
            prev_block |-> IF op = "encrypt" THEN iv ELSE Take(data, block_size),
            out |-> <<>>, raised |-> "", value |-> <<>>]]
    /\ UNCHANGED <<enc, dec, last, plain, ekey, system, req, issued, ver, wire, imp,
                   derived, gem, geo, validator, stream, padcall>>

\* one pass of caller t's block loop on the engine's generator, whoever set it
Block(t) ==
    LET me == threads[t]
        block == SubSeq(me.blocks, me.i, Min(me.i + block_size - 1, Len(me.blocks)))
    IN  /\ me.pc = "loop"
        /\ \E g \in { generate_stream(chaos, block_size) } :
            \E done \in { IF me.op = "encrypt"
                           THEN XorBytes(XorBytes(block, me.prev_block), g.out)
                           ELSE XorBytes(XorBytes(block, g.out), me.prev_block) } :
            \E out \in { me.out \o done } :
                /\ chaos' = g.gen
                /\ threads' = [threads EXCEPT ![t] =
                       IF me.i + block_size <= Len(me.blocks)
                       THEN [me EXCEPT !.i = me.i + block_size, !.out = out,
                                       !.prev_block = IF me.op = "encrypt" THEN done ELSE block]
                       ELSE [me EXCEPT !.pc = "done", !.i = me.i + block_size, !.out = out,
                                       !.raised = IF me.op = "encrypt" THEN "" ELSE _unpad(out).raised,
                                       !.value = IF me.op = "encrypt" THEN me.iv \o out
                                                 ELSE _unpad(out).value]]
        /\ UNCHANGED <<enc, dec, last, plain, ekey, system, req, issued, ver, wire, imp,
                       derived, gem, geo, validator, stream, padcall>>

\* the calls: encrypt of b'A' and of sixteen b'A' under a key of b'pw1', and decrypt,
\* under either key, of what encrypt returns for sixteen b'A'
NextThreads ==
    \E t \in {1, 2} :
        \/ \E k \in { r.key : r \in { r \in KeyRing : r.password = <<112, 119, 49>> } } :
               \/ \E data \in { Fill(1, 65), Fill(block_size, 65) } :
                      \E iv \in TokenBytes(block_size) : Call(t, "encrypt", data, k, iv)
               \/ \E c \in { encrypt(Fill(block_size, 65), derive_key(<<112, 119, 49>>, {Fill(16, 7)}, <<>>),
                                       Fill(block_size, 0)).out } :
                      Call(t, "decrypt", c, k, <<>>)
        \/ Block(t)

SpecThreads == InitThreads /\ [][NextThreads]_vars

\* C16: a call interleaved with another call on the same engine returns what it
\* returns when run alone with the same IV: no call draws keystream from, or
\* replaces, the generator another call is using.
C16_CallsIsolated ==
    \A t \in {1, 2} :
        threads[t].pc = "done" =>
            IF threads[t].op = "encrypt"
            THEN threads[t].value = encrypt(threads[t].data, threads[t].key, threads[t].iv).out
            ELSE /\ threads[t].raised = decrypt(threads[t].data, threads[t].key).raised
                 /\ threads[t].value = decrypt(threads[t].data, threads[t].key).value

(***************************************************************************)
(* LWSEngine(): calls of compute_gematria on the texts of up to MaxTextLen *)
(* characters over a, b, c, h, s, t, H, T, 1 and the space.                *)
(***************************************************************************)
InitGematria ==
    /\ gem = NoCall
    /\ chaos = NoChaos
    /\ enc = NoCall
    /\ dec = NoCall
    /\ last = "init"
    /\ plain = <<>>
    /\ ekey = NoCall
    /\ system = NoCall
    /\ req = NoCall
    /\ issued = NoCall
    /\ ver = NoCall
    /\ wire = NoCall
    /\ imp = NoCall
    /\ derived = NoCall
    /\ threads = NoCall
    /\ geo = NoCall
    /\ validator = NoCall
    /\ stream = NoCall
    /\ padcall = NoCall

ComputeGematria(text) ==
    /\ ~gem.called
    /\ gem' = [called |-> TRUE, text |-> text, total |-> compute_gematria(text)]
    /\ UNCHANGED <<chaos, enc, dec, last, plain, ekey, system, req, issued, ver, wire, imp,
                   derived, threads, geo, validator, stream, padcall>>

NextGematria ==
    \E n \in 0..MaxTextLen :
        \E text \in [1..n -> {97, 98, 99, 104, 115, 116, 72, 84, 49, 32}] : ComputeGematria(text)

SpecGematria == InitGematria /\ [][NextGematria]_vars

\* C17: compute_gematria(text) is the sum of the table values of the units found by a
\* left-to-right scan of the lowercased text that takes, at each position, the
\* two-letter digraph when it is in the table and otherwise the single character
\* (worth 0 when unmapped); compute_gematria("ab") is the value of 'a' plus that of 'b'.
C17_GematriaScan ==
    gem.called =>
        LET n == Len(gem.text)
            low == [i \in 1..n |-> IF gem.text[i] \in 65..90 THEN gem.text[i] + 32
                                   ELSE gem.text[i]]
            digraph(i) == i < n /\ gematria_map(<<low[i], low[i + 1]>>) > 0
            \* the positions where the scan begins a unit
            begins[i \in 1..n] ==
                IF i = 1 THEN TRUE
                ELSE \/ begins[i - 1] /\ ~digraph(i - 1)
                     \/ i > 2 /\ begins[i - 2] /\ digraph(i - 2)
            worth(i) == IF ~begins[i] THEN 0
                        ELSE IF digraph(i) THEN gematria_map(<<low[i], low[i + 1]>>)
                        ELSE gematria_map(<<low[i]>>)
            sum[i \in 0..n] == IF i = 0 THEN 0 ELSE sum[i - 1] + worth(i)
        IN  /\ gem.total = sum[n]
            /\ (gem.text = <<97, 98>> => gem.total = gematria_map(<<97>>) + gematria_map(<<98>>))

\* 'Tsh': the scan takes 'ts' and then 'h', not 't' and then 'sh'
C17_Witness ==
    gem.called /\ gem.text = <<84, 115, 104>> /\ gem.total = 95

(***************************************************************************)
(* The consensus validator: a system issues up to two tokens;              *)
(* validate_trajectory is called on the first token issued, under several  *)
(* thresholds, and compute_consensus_hash on lists of the two tokens.  The *)
(* last two compute_consensus_hash calls are kept, the earlier first.      *)
(***************************************************************************)
InitConsensus ==
    /\ system \in Systems
    /\ validator = [issued |-> <<>>, validated |-> NoCall, hashed |-> <<>>]
    /\ stream = NoCall
    /\ padcall = NoCall
    /\ chaos = NoChaos
    /\ enc = NoCall
    /\ dec = NoCall
    /\ last = "init"
    /\ plain = <<>>
    /\ ekey = NoCall
    /\ req = NoCall
    /\ issued = NoCall
    /\ ver = NoCall
    /\ wire = NoCall
    /\ imp = NoCall
    /\ derived = NoCall
    /\ threads = NoCall
    /\ gem = NoCall
    /\ geo = NoCall

IssueToken(r, time1, time2, iv) ==
    /\ Len(validator.issued) < 2
    /\ validator.validated = NoCall
    /\ \E c \in { create_authorization(system, r.subject, r.payload, r.passphrase,
                                        time1, time2, iv) } :
           /\ chaos' = c.chaos
           /\ validator' = [validator EXCEPT !.issued =
                                Append(@, [subject |-> r.subject, payload |-> r.payload,
                                           passphrase |-> r.passphrase, token |-> c.token])]
    /\ UNCHANGED <<enc, dec, last, plain, ekey, system, req, issued, ver, wire, imp,
                   derived, threads, gem, geo, stream, padcall>>

\* ConsensusValidator(system, threshold).validate_trajectory(token)
ValidateTrajectory(threshold, token) ==
    /\ validator' = [validator EXCEPT !.validated =
                         [called |-> TRUE, threshold |-> threshold, token |-> token,
                          out |-> validate_trajectory(system, threshold, token)]]
    /\ UNCHANGED <<chaos, enc, dec, last, plain, ekey, system, req, issued, ver, wire, imp,
                   derived, threads, gem, geo, stream, padcall>>

\* ConsensusValidator(system).compute_consensus_hash(tokens); two calls are followed
ComputeConsensusHash(list) ==
    /\ Len(validator.hashed) < 2
    /\ \E h \in { compute_consensus_hash(list) } :
           validator' = [validator EXCEPT !.hashed =
                            Append(@, [list |-> list, combined |-> h.combined, out |-> h.digest])]
    /\ UNCHANGED <<chaos, enc, dec, last, plain, ekey, system, req, issued, ver, wire, imp,
                   derived, threads, gem, geo, stream, padcall>>

\* requests for 'u1' and 'ec' with {"a": 1} and for 'ec' with {"b": 1}, whose point
\* lies in another quadrant, all under passphrase 'p1', at two readings of the clock;
\* the thresholds 7 (the default), 14 and 15; lists of the tokens issued, and of two
\* tokens as from_dict builds them from a dict whose signature fields decode to b'a'
\* and b'aa'
NextConsensus ==
    \/ \E subject \in { <<117, 49>>, <<101, 99>> } : \E k \in { 97, 98 } :
           \E r \in { r \in { [subject |-> subject,
                                payload |-> Dict(<<Item(PyStr(<<k>>), PyInt(1))>>),
                                passphrase |-> <<112, 49>>] } :
                          k = 98 => subject = <<101, 99>> } :
           \E time2 \in { Time0, PyFloat(1700000000, 2) } :
               \E iv \in TokenBytes(block_size) : IssueToken(r, Time0, time2, iv)
    \/ /\ Len(validator.issued) = 1
       /\ \E threshold \in {7, 14, 15} : ValidateTrajectory(threshold, validator.issued[1].token)
    \/ /\ Len(validator.issued) = 2
       /\ LET t1 == validator.issued[1].token
              t2 == validator.issued[2].token
              a == AuthorizationToken(t1.token_id, t1.subject, t1.timestamp, <<97>>, <<>>, <<>>)
              aa == AuthorizationToken(t2.token_id, t2.subject, t2.timestamp, <<97, 97>>, <<>>, <<>>)
          IN  \E list \in { <<t1, t2>>, <<t2, t1>>, <<a, aa>>, <<aa, a>> } :
                  ComputeConsensusHash(list)

SpecConsensus == InitConsensus /\ [][NextConsensus]_vars

\* C18: two create_authorization calls with the same subject and passphrase produce
\* the same semantic_binding, which is exactly 32 bytes long, whatever the payload and
\* the creation time.
C18_BindingDeterministic ==
    \A i, j \in 1..Len(validator.issued) :
        LET a == validator.issued[i]
            b == validator.issued[j]
        IN  /\ Len(a.token.semantic_binding) = 32
            /\ (a.subject = b.subject /\ a.passphrase = b.passphrase)
                   => a.token.semantic_binding = b.token.semantic_binding

C18_Witness ==
    /\ Len(validator.issued) = 2
    /\ validator.issued[1].subject = validator.issued[2].subject
    /\ validator.issued[1].passphrase = validator.issued[2].passphrase
    /\ validator.issued[1].payload # validator.issued[2].payload
    /\ validator.issued[1].token.timestamp # validator.issued[2].token.timestamp
    /\ validator.issued[1].token.encrypted_payload # validator.issued[2].token.encrypted_payload
    /\ validator.issued[1].token.semantic_binding = validator.issued[2].token.semantic_binding

\* C19: validate_trajectory(token) returns true if and only if the trajectory
\* recomputed for token.subject has at least `threshold` points and passes
\* verify_trajectory_integrity; with a threshold above 14 it returns false.
C19_ValidateTrajectory ==
    validator.validated.called =>
        LET v == validator.validated
            trajectory == traverse_layers(system.hyperbolic, encode_point(encode(v.token.subject.s)))
        IN  /\ v.out = (Len(trajectory) >= v.threshold
                            /\ verify_trajectory_integrity(system.hyperbolic, trajectory))
            /\ (v.threshold > 14 => ~v.out)

\* a token whose trajectory passes is accepted at threshold 14
C19_Witness ==
    /\ validator.validated.called
    /\ validator.validated.threshold = 14
    /\ validator.validated.out

\* the tokens' bytes as compute_consensus_hash joins them
TokenBytesHashed(t) == t.geometric_signature \o t.semantic_binding

\* list y holds the tokens of list x in another order
Reordered(x, y) ==
    /\ Len(x) = Len(y) /\ x # y
    /\ \E perm \in [1..Len(x) -> 1..Len(x)] :
           /\ \A k, l \in 1..Len(x) : k # l => perm[k] # perm[l]
           /\ \A k \in 1..Len(x) : y[k] = x[perm[k]]

\* every call hashed the concatenation, in list order, of signature then binding
HashesConcatenation ==
    \A i \in 1..Len(validator.hashed) :
        LET h == validator.hashed[i]
        IN  /\ h.combined = Flatten([k \in 1..Len(h.list) |-> TokenBytesHashed(h.list[k])],
                                    1, Len(h.list))
            /\ h.out = sha512(h.combined)

\* C20: compute_consensus_hash(tokens) is the hash of the concatenation, in list
\* order, of each token's geometric_signature followed by its semantic_binding;
\* reordering a list whose tokens have different signature/binding bytes changes the
\* byte string that is hashed.
C20_OrderSensitive ==
    /\ HashesConcatenation
    /\ \A i, j \in 1..Len(validator.hashed) :
           LET x == validator.hashed[i].list
               y == validator.hashed[j].list
           IN  (Reordered(x, y) /\ \E k \in 1..Len(x) : TokenBytesHashed(x[k]) # TokenBytesHashed(y[k]))
                   => validator.hashed[i].combined # validator.hashed[j].combined

\* C20 as it holds: the same, for lists whose tokens all contribute one number of
\* bytes, as the tokens of create_authorization do (a 64-byte signature and a
\* 32-byte binding).
C20_OrderSensitiveEqualWidth ==
    /\ HashesConcatenation
    /\ \A i, j \in 1..Len(validator.hashed) :
           LET x == validator.hashed[i].list
               y == validator.hashed[j].list
           IN  (/\ Reordered(x, y)
                /\ \E k \in 1..Len(x) : TokenBytesHashed(x[k]) # TokenBytesHashed(y[k])
                /\ \A k \in 1..Len(x) : Len(TokenBytesHashed(x[k])) = Len(TokenBytesHashed(x[1])))
                   => validator.hashed[i].combined # validator.hashed[j].combined

\* two issued tokens of one binding and different signatures, hashed in both orders
C20_Witness ==
    /\ Len(validator.hashed) = 2
    /\ Len(validator.hashed[1].list) = 2
    /\ validator.hashed[2].list = <<validator.hashed[1].list[2], validator.hashed[1].list[1]>>
    /\ Len(validator.hashed[1].list[1].geometric_signature) = 64
    /\ validator.hashed[1].list[1].semantic_binding = validator.hashed[1].list[2].semantic_binding
    /\ validator.hashed[1].list[1].geometric_signature # validator.hashed[1].list[2].geometric_signature
    /\ validator.hashed[1].out # validator.hashed[2].out

(***************************************************************************)
(* One instance through all its operations: SpiralverseSystem(master_key)  *)
(* and ConsensusValidator(system), then calls of create_authorization,     *)
(* verify_authorization, export_token, import_token, validate_trajectory   *)
(* and compute_consensus_hash, in any order.                               *)
(***************************************************************************)
InitProtocol ==
    /\ system \in Systems
    /\ req \in Requests
    /\ validator = [issued |-> <<>>, validated |-> NoCall, hashed |-> <<>>]
    /\ chaos = NoChaos
    /\ issued = NoCall
    /\ ver = NoCall
    /\ wire = NoCall
    /\ imp = NoCall
    /\ enc = NoCall
    /\ dec = NoCall
    /\ last = "init"
    /\ plain = <<>>
    /\ ekey = NoCall
    /\ derived = NoCall
    /\ threads = NoCall
    /\ gem = NoCall
    /\ geo = NoCall
    /\ stream = NoCall
    /\ padcall = NoCall

\* the token issued last is the one verified (under either passphrase), exported,
\* validated and hashed; it is also verified with another token_id and timestamp and
\* its signature cut to 16 bytes, and with byte 16 of its signature changed; the
\* string exported last is the one imported; one validate_trajectory and one
\* compute_consensus_hash are followed
NextProtocol ==
    \/ CreateAuthorization(Time0, Time0, Fill(block_size, 3))
    \/ issued.called /\ \E passphrase \in Passphrases :
           \E token \in { issued.token,
                          [issued.token EXCEPT !.token_id = PyStr(<<120>>),
                                               !.timestamp = PyFloat(1700000000, 2),
                                               !.geometric_signature = Take(@, 16)],
                          [issued.token EXCEPT !.geometric_signature =
                                                   [@ EXCEPT ![17] = Xor(@, 1)]] } :
               VerifyAuthorization(token, passphrase)
    \/ issued.called /\ ExportToken
    \/ wire.called /\ ImportToken(wire.out)
    \/ issued.called /\ validator.validated = NoCall /\ ValidateTrajectory(7, issued.token)
    \/ issued.called /\ Len(validator.hashed) = 0 /\ ComputeConsensusHash(<<issued.token>>)

SpecProtocol == InitProtocol /\ [][NextProtocol]_vars

\* C25: no create_authorization, verify_authorization, export_token, import_token or
\* consensus call changes the instance's master_key, derived_key or its 13 layer
\* transforms.
C25_KeysUnchanged ==
    [][/\ system'.master_key = system.master_key
       /\ system'.derived_key = system.derived_key
       /\ system'.hyperbolic.layer_transforms = system.hyperbolic.layer_transforms
       /\ Len(system'.hyperbolic.layer_transforms) = 13]_vars

\* every kind of call has been made on the instance
C25_Witness ==
    /\ issued.called /\ ver.called /\ ver.valid /\ wire.called /\ imp.called
    /\ validator.validated # NoCall /\ Len(validator.hashed) = 1
    /\ chaos # NoChaos
    /\ system \in Systems

\* C26: verify_authorization never compares the stored geometric signature with one
\* recomputed from subject and payload: a token that differs from the issued one in
\* token_id, timestamp or bytes 16 and later of geometric_signature only is verified
\* exactly as the issued one is, (True, payload) for a valid token.
C26_UnreadFields ==
    (issued.called /\ ver.called /\ ver.token # issued.token
        /\ ver.token.subject = issued.token.subject
        /\ ver.token.semantic_binding = issued.token.semantic_binding
        /\ ver.token.encrypted_payload = issued.token.encrypted_payload
        /\ Take(ver.token.geometric_signature, 16) = Take(issued.token.geometric_signature, 16))
    => LET r == verify_authorization(system, NoChaos, issued.token, ver.passphrase)
       IN  /\ ver.valid = r.valid
           /\ ver.payload = r.payload
           /\ (ver.passphrase # req.passphrase => ~ver.valid)

\* a token with another id and timestamp and 16 bytes of signature is accepted
C26_Witness ==
    /\ issued.called /\ ver.called /\ ver.valid
    /\ ver.token.token_id # issued.token.token_id
    /\ ver.token.timestamp # issued.token.timestamp
    /\ Len(ver.token.geometric_signature) = 16
    /\ Len(issued.token.geometric_signature) = 64
    /\ ver.payload # Scalar(None)

====
